---- MODULE Spec2Model ----
(***************************************************************************)
(* Vector store, staleness check and ingestion pipeline of the browser     *)
(* RAG assistant: VectorDatabase (services/vectorDatabase.ts) and          *)
(* DocumentLoader (services/documentLoader.ts).                            *)
(*                                                                         *)
(* Time is Date.now() in milliseconds, counted from the start of the       *)
(* modelled run.  A Map is a sequence of [key, value] entries in insertion *)
(* order.  A similarity is kept as the exact triple (dot, normA, normB) of *)
(* the sums cosineSimilarity accumulates; it stands for                    *)
(* dot / (sqrt(normA) * sqrt(normB)) and every comparison on it is done    *)
(* on that quotient.                                                       *)
(***************************************************************************)
EXTENDS Integers, Sequences, FiniteSets, TLC

VARIABLES chunks, isInitialized, storage, now, ticks, lastSaved, ret, load, state, queries

vars == <<chunks, isInitialized, storage, now, ticks, lastSaved, ret, load, state, queries>>

(***************************************************************************)
(* Bounds of the model.                                                    *)
(***************************************************************************)
MaxChunks == 2
MaxTicks == 2

(***************************************************************************)
(* Program constants.                                                      *)
(***************************************************************************)
VERSION == "1.0.0"
maxAge == 7 * 24 * 60 * 60 * 1000
recentWindow == 60 * 60 * 1000
similarityThreshold == [num |-> 7, den |-> 10]
noiseFloor == [num |-> 1, den |-> 10]

(***************************************************************************)
(* Map<string, VectorChunk>: entries in insertion order, keys unique.      *)
(***************************************************************************)
EmptyMap == <<>>

MapHas(m, k) == \E i \in 1..Len(m) : m[i].key = k

MapSet_Appends(m, k, v) == Append(m, [key |-> k, value |-> v])

MapSet(m, k, v) ==
  IF MapHas(m, k)
    THEN [i \in 1..Len(m) |-> IF m[i].key = k THEN [key |-> k, value |-> v] ELSE m[i]]
    ELSE Append(m, [key |-> k, value |-> v])

MapDelete(m, k) == SelectSeq(m, LAMBDA e : e.key # k)

MapValues(m) == [i \in 1..Len(m) |-> m[i].value]

MapSize(m) == Len(m)

(***************************************************************************)
(* localStorage item under STORAGE_KEY: absent, a string that is not JSON, *)
(* or the JSON text of a StoredVectorData.  Denied stands for a browser    *)
(* that refuses the page its localStorage: getItem, setItem and removeItem *)
(* all throw.                                                              *)
(***************************************************************************)
NoItem == [kind |-> "none"]

NotJson == [kind |-> "text"]

Denied == [kind |-> "denied"]

JSONstringify(data) == [kind |-> "json", data |-> data]

JSONparses(item) == item.kind = "json"

JSONparse(item) == item.data

Null == [isNull |-> TRUE]

(***************************************************************************)
(* hashManifest: hash = ((hash << 5) - hash) + char, kept to 32 bits.      *)
(* The 32-bit value is carried as two 16-bit halves.  The range test on    *)
(* next always holds; it makes each step of the loop be computed before    *)
(* the following one is entered.                                           *)
(***************************************************************************)
RECURSIVE hashLoop(_, _, _, _)
hashLoop(str, i, last, hash) ==
  IF i > last THEN hash
  ELSE LET lo == 31 * hash.lo + str[i]
           hi == 31 * hash.hi + (lo \div 65536)
           next == [hi |-> hi % 65536, lo |-> lo % 65536]
       IN  IF next.hi < 65536 /\ next.lo < 65536 THEN hashLoop(str, i + 1, last, next)
                                                 ELSE next

\* The loop over the whole of str, evaluated in stretches of 28 characters.
RECURSIVE hashFrom(_, _, _)
hashFrom(str, i, hash) ==
  IF i > Len(str) THEN hash
  ELSE LET last == IF i + 27 > Len(str) THEN Len(str) ELSE i + 27
           next == hashLoop(str, i, last, hash)
       IN  IF next.hi < 65536 THEN hashFrom(str, last + 1, next) ELSE next

ToInt32(hash) ==
  IF hash.hi >= 32768 THEN (hash.hi - 65536) * 65536 + hash.lo
                      ELSE hash.hi * 65536 + hash.lo

hashManifest(str) == ToInt32(hashFrom(str, 1, [hi |-> 0, lo |-> 0]))

\* JSON.stringify({ documents: fileList }) of the list in checkIfUpdateNeeded,
\* as character codes.
fileListJson == <<
    123, 34, 100, 111, 99, 117, 109, 101, 110, 116, 115, 34, 58, 91, 34, 67, 108, 97, 117, 100, 101, 46, 100, 111,
    99, 120, 34, 44, 34, 68, 101, 101, 112, 83, 101, 101, 107, 46, 100, 111, 99, 120, 34, 44, 34, 67, 111, 109,
    98, 105, 110, 101, 100, 32, 117, 115, 105, 110, 103, 32, 67, 108, 97, 117, 100, 101, 46, 100, 111, 99, 120, 34,
    44, 34, 67, 111, 109, 98, 105, 110, 101, 100, 32, 117, 115, 105, 110, 103, 32, 71, 101, 109, 105, 110, 105, 46,
    100, 111, 99, 120, 34, 44, 34, 71, 80, 84, 46, 100, 111, 99, 120, 34, 44, 34, 71, 101, 109, 105, 110, 105,
    46, 100, 111, 99, 120, 34, 44, 34, 77, 111, 108, 108, 101, 114, 32, 68, 46, 32, 71, 117, 105, 100, 101, 32,
    116, 111, 32, 67, 121, 98, 101, 114, 115, 101, 99, 117, 114, 105, 116, 121, 32, 105, 110, 32, 68, 105, 103, 105,
    116, 97, 108, 32, 84, 114, 97, 110, 115, 102, 111, 114, 109, 97, 116, 105, 111, 110, 46, 46, 46, 66, 101, 115,
    116, 32, 80, 114, 97, 99, 116, 105, 99, 101, 115, 32, 50, 48, 50, 51, 46, 112, 100, 102, 34, 44, 34, 83,
    105, 110, 103, 104, 32, 84, 46, 32, 68, 105, 103, 105, 116, 97, 108, 32, 82, 101, 115, 105, 108, 105, 101, 110,
    99, 101, 44, 32, 67, 121, 98, 101, 114, 115, 101, 99, 117, 114, 105, 116, 121, 32, 97, 110, 100, 32, 83, 117,
    112, 112, 108, 121, 32, 67, 104, 97, 105, 110, 115, 32, 50, 48, 50, 53, 46, 112, 100, 102, 34, 44, 34, 68,
    117, 110, 104, 97, 109, 32, 75, 46, 32, 67, 121, 98, 101, 114, 32, 67, 73, 83, 79, 32, 77, 97, 114, 107,
    115, 109, 97, 110, 115, 104, 105, 112, 46, 32, 72, 105, 116, 116, 105, 110, 103, 32, 116, 104, 101, 32, 77, 97,
    114, 107, 32, 105, 110, 32, 67, 121, 98, 101, 114, 115, 101, 99, 117, 114, 105, 116, 121, 46, 46, 46, 50, 48,
    50, 53, 46, 112, 100, 102, 34, 44, 34, 66, 97, 107, 101, 114, 32, 68, 46, 32, 65, 32, 67, 73, 83, 79,
    32, 71, 117, 105, 100, 101, 32, 116, 111, 32, 67, 121, 98, 101, 114, 32, 82, 101, 115, 105, 108, 105, 101, 110,
    99, 101, 46, 32, 65, 32, 104, 111, 119, 45, 116, 111, 32, 103, 117, 105, 100, 101, 32, 102, 111, 114, 32, 101,
    118, 101, 114, 121, 32, 67, 73, 83, 79, 46, 46, 46, 50, 48, 50, 52, 46, 112, 100, 102, 34, 44, 34, 65,
    115, 108, 97, 110, 101, 114, 32, 77, 46, 32, 67, 121, 98, 101, 114, 115, 101, 99, 117, 114, 105, 116, 121, 32,
    83, 116, 114, 97, 116, 101, 103, 105, 101, 115, 32, 97, 110, 100, 32, 66, 101, 115, 116, 32, 80, 114, 97, 99,
    116, 105, 99, 101, 115, 46, 46, 46, 50, 48, 50, 52, 46, 112, 100, 102, 34, 44, 34, 67, 114, 101, 108, 105,
    110, 32, 74, 46, 32, 80, 114, 105, 110, 99, 105, 112, 108, 101, 115, 32, 111, 102, 32, 67, 121, 98, 101, 114,
    115, 101, 99, 117, 114, 105, 116, 121, 32, 50, 48, 50, 52, 46, 112, 100, 102, 34, 44, 34, 70, 97, 105, 115,
    97, 108, 32, 74, 46, 32, 68, 97, 114, 107, 32, 87, 101, 98, 32, 83, 101, 99, 114, 101, 116, 115, 46, 32,
    69, 116, 104, 105, 99, 97, 108, 32, 72, 97, 99, 107, 105, 110, 103, 32, 97, 110, 100, 32, 67, 121, 98, 101,
    114, 115, 101, 99, 117, 114, 105, 116, 121, 46, 46, 46, 69, 120, 45, 72, 97, 99, 107, 101, 114, 32, 50, 48,
    50, 53, 46, 112, 100, 102, 34, 44, 34, 75, 97, 117, 115, 104, 105, 107, 32, 75, 46, 32, 65, 100, 118, 97,
    110, 99, 101, 100, 32, 84, 101, 99, 104, 110, 105, 113, 117, 101, 115, 32, 97, 110, 100, 32, 65, 112, 112, 108,
    105, 99, 97, 116, 105, 111, 110, 115, 32, 111, 102, 32, 67, 121, 98, 101, 114, 115, 101, 99, 117, 114, 105, 116,
    121, 32, 38, 32, 70, 111, 114, 101, 110, 115, 105, 99, 115, 32, 50, 48, 50, 53, 46, 112, 100, 102, 34, 44,
    34, 67, 121, 98, 101, 114, 115, 101, 99, 117, 114, 105, 116, 121, 70, 117, 110, 100, 97, 109, 101, 110, 116, 97,
    108, 32, 45, 32, 79, 112, 112, 111, 115, 32, 67, 108, 97, 115, 115, 46, 112, 100, 102, 34, 93, 125 >>

\* JSON.stringify({ documents: [] }): the manifest of a deployment with
\* another document list.
otherListJson == <<123, 34, 100, 111, 99, 117, 109, 101, 110, 116, 115, 34, 58, 91, 93, 125>>

currentHashValue == hashManifest(fileListJson)

otherHashValue == hashManifest(otherListJson)

(***************************************************************************)
(* A JavaScript number produced by cosineSimilarity: NaN, or the real      *)
(* dot / sqrt(sq) with sq > 0.                                             *)
(***************************************************************************)
NaN == [kind |-> "nan"]

Real(dot, sq) == [kind |-> "real", dot |-> dot, sq |-> sq]

\* dotProduct / (Math.sqrt(normA) * Math.sqrt(normB)); 0 / 0 is NaN.  A zero
\* norm forces a zero dot product, so the quotient is never infinite.
Divide(dot, normA, normB) ==
  IF normA * normB = 0 THEN NaN ELSE Real(dot, normA * normB)

IsZero(x) == x.kind = "real" /\ x.dot = 0

\* x >= q.num / q.den for a positive rational q; false for NaN.
GreaterEq(x, q) ==
  /\ x.kind = "real"
  /\ x.dot > 0
  /\ q.den * q.den * x.dot * x.dot >= q.num * q.num * x.sq

\* x > q.num / q.den for a positive rational q; false for NaN.
Greater(x, q) ==
  /\ x.kind = "real"
  /\ x.dot > 0
  /\ q.den * q.den * x.dot * x.dot > q.num * q.num * x.sq

Sign(n) == IF n > 0 THEN 1 ELSE IF n < 0 THEN -1 ELSE 0

\* x < y for two reals.
Less(x, y) ==
  Sign(x.dot) * x.dot * x.dot * y.sq < Sign(y.dot) * y.dot * y.dot * x.sq

RECURSIVE sumProducts(_, _, _)
sumProducts(a, b, i) ==
  IF i > Len(a) THEN 0 ELSE a[i] * b[i] + sumProducts(a, b, i + 1)

Threw == [threw |-> TRUE]

Returned(v) == [threw |-> FALSE, value |-> v]

\* cosineSimilarity without the length test: a component read past the end
\* of b is undefined and the sums become NaN.
cosineSimilarity_NoLengthTest(a, b) ==
  IF Len(a) > Len(b) THEN Returned(NaN)
  ELSE Returned(Divide(sumProducts(a, b, 1), sumProducts(a, a, 1),
                       sumProducts(SubSeq(b, 1, Len(a)), SubSeq(b, 1, Len(a)), 1)))

cosineSimilarity(a, b) ==
  IF Len(a) # Len(b) THEN Threw
  ELSE Returned(Divide(sumProducts(a, b, 1), sumProducts(a, a, 1), sumProducts(b, b, 1)))

(***************************************************************************)
(* VectorDatabase: persistence.                                            *)
(***************************************************************************)
\* What loadFromStorage gives: the data it returns (Null for null), the item
\* it leaves under STORAGE_KEY, and whether it threw.
Loaded(data, item) == [data |-> data, storage |-> item, threw |-> FALSE]

\* getItem throws, and so does the removeItem of the catch block: the
\* exception leaves loadFromStorage.
LoadThrew(item) == [data |-> Null, storage |-> item, threw |-> TRUE]

\* loadFromStorage without the age test.
loadFromStorage_NeverExpires(item, t) ==
  IF item = Denied THEN LoadThrew(item)
  ELSE IF item = NoItem THEN Loaded(Null, item)
  ELSE IF ~JSONparses(item) THEN Loaded(Null, NoItem)
  ELSE LET data == JSONparse(item)
       IN  IF data.version # VERSION
             THEN Loaded(Null, NoItem)
             ELSE Loaded(data, item)

\* loadFromStorage that rejects an expired or wrong-version snapshot but
\* leaves it under STORAGE_KEY.
loadFromStorage_KeepsRejected(item, t) ==
  IF item = Denied THEN LoadThrew(item)
  ELSE IF item = NoItem THEN Loaded(Null, item)
  ELSE IF ~JSONparses(item) THEN Loaded(Null, NoItem)
  ELSE LET data == JSONparse(item)
       IN  IF t - data.timestamp > maxAge \/ data.version # VERSION
             THEN Loaded(Null, item)
             ELSE Loaded(data, item)

loadFromStorage(item, t) ==
  IF item = Denied THEN LoadThrew(item)
  ELSE IF item = NoItem THEN Loaded(Null, item)
  ELSE IF ~JSONparses(item) THEN Loaded(Null, NoItem)
  ELSE LET data == JSONparse(item)
           isExpired == t - data.timestamp > maxAge
           isWrongVersion == data.version # VERSION
       IN  IF isExpired \/ isWrongVersion
             THEN Loaded(Null, NoItem)
             ELSE Loaded(data, item)

RECURSIVE setEach(_, _, _)
setEach(m, arr, i) ==
  IF i > Len(arr) THEN m ELSE setEach(MapSet(m, arr[i].id, arr[i]), arr, i + 1)

\* initialize: the catch block logs and throws the error again, with
\* isInitialized left as it was.
initialize(m, item, t) ==
  LET stored == loadFromStorage(item, t)
  IN  IF stored.threw THEN [chunks |-> m, storage |-> stored.storage, threw |-> TRUE]
      ELSE [chunks |-> IF stored.data # Null THEN setEach(m, stored.data.chunks, 1) ELSE m,
            storage |-> stored.storage, threw |-> FALSE]

\* setItem stores the item: writes is FALSE when it throws for lack of
\* room, and it throws as well when localStorage is denied.
Written(item, writes) == writes /\ item # Denied

\* saveToStorage that leaves the first chunk out of the snapshot.
saveToStorage_DropsFirst(m, manifestHash, t, item, writes) ==
  LET data == [chunks |-> IF MapSize(m) = 0 THEN <<>> ELSE Tail(MapValues(m)),
               manifestHash |-> manifestHash, timestamp |-> t, version |-> VERSION]
  IN  IF Written(item, writes) THEN JSONstringify(data) ELSE item

\* The error of a setItem that throws is caught.
saveToStorage(m, manifestHash, t, item, writes) ==
  LET data == [chunks |-> MapValues(m), manifestHash |-> manifestHash,
               timestamp |-> t, version |-> VERSION]
  IN  IF Written(item, writes) THEN JSONstringify(data) ELSE item

Undefined == [defined |-> FALSE]

Defined(v) == [defined |-> TRUE, value |-> v]

\* The catch block of checkIfUpdateNeeded: { needsUpdate: true }
CheckFailed(item) == [needsUpdate |-> TRUE, currentHash |-> Undefined, storage |-> item]

\* checkIfUpdateNeeded that does not compare the fingerprints.
checkIfUpdateNeeded_NoHashCompare(m, item, t) ==
  LET first == IF MapSize(m) > 0 THEN loadFromStorage(item, t) ELSE Loaded(Null, item)
  IN  IF first.threw THEN CheckFailed(first.storage)
      ELSE IF MapSize(m) > 0 /\ first.data # Null /\ t - first.data.timestamp < recentWindow
        THEN [needsUpdate |-> FALSE, currentHash |-> Undefined, storage |-> first.storage]
        ELSE LET stored == loadFromStorage(first.storage, t)
             IN  IF stored.threw THEN CheckFailed(stored.storage)
                 ELSE [needsUpdate |-> stored.data = Null \/ MapSize(m) = 0,
                       currentHash |-> Defined(currentHashValue), storage |-> stored.storage]

\* checkIfUpdateNeeded that does not look at the size of the store.
checkIfUpdateNeeded_IgnoresEmpty(m, item, t) ==
  LET stored == loadFromStorage(item, t)
  IN  IF stored.threw THEN CheckFailed(stored.storage)
      ELSE IF stored.data # Null /\ t - stored.data.timestamp < recentWindow
        THEN [needsUpdate |-> FALSE, currentHash |-> Undefined, storage |-> stored.storage]
        ELSE [needsUpdate |-> stored.data = Null \/ stored.data.manifestHash # currentHashValue,
              currentHash |-> Defined(currentHashValue), storage |-> stored.storage]

\* checkIfUpdateNeeded that asks for an update once the snapshot is an
\* hour old, whatever its fingerprint.
checkIfUpdateNeeded_StaleAfterHour(m, item, t) ==
  LET stored == loadFromStorage(item, t)
  IN  IF stored.threw THEN CheckFailed(stored.storage)
      ELSE [needsUpdate |-> \/ stored.data = Null
                            \/ MapSize(m) = 0
                            \/ stored.data.manifestHash # currentHashValue
                            \/ t - stored.data.timestamp >= recentWindow,
            currentHash |-> Defined(currentHashValue), storage |-> stored.storage]

checkIfUpdateNeeded(m, item, t) ==
  LET first == IF MapSize(m) > 0 THEN loadFromStorage(item, t) ELSE Loaded(Null, item)
  IN  IF first.threw THEN CheckFailed(first.storage)
      ELSE IF MapSize(m) > 0 /\ first.data # Null /\ t - first.data.timestamp < recentWindow
        THEN [needsUpdate |-> FALSE, currentHash |-> Undefined, storage |-> first.storage]
        ELSE LET currentHash == currentHashValue
                 stored == loadFromStorage(first.storage, t)
             IN  IF stored.threw THEN CheckFailed(stored.storage)
                 ELSE IF stored.data = Null \/ stored.data.manifestHash # currentHash
                           \/ MapSize(m) = 0
                   THEN [needsUpdate |-> TRUE, currentHash |-> Defined(currentHash),
                         storage |-> stored.storage]
                   ELSE [needsUpdate |-> FALSE, currentHash |-> Defined(currentHash),
                         storage |-> stored.storage]

\* clear: the Map is emptied before removeItem is called, and an exception
\* of removeItem leaves clear.
clear(m, item) ==
  [chunks |-> EmptyMap, storage |-> IF item = Denied THEN item ELSE NoItem,
   threw |-> item = Denied]

\* finalizeBatch that lets the error of a failed write through.
finalizeBatch_Raises(m, manifestHash, t, item, writes) ==
  [chunks |-> m, storage |-> saveToStorage(m, manifestHash, t, item, writes),
   threw |-> ~Written(item, writes)]

\* finalizeBatch: saveToStorage catches every error of the write.
finalizeBatch(m, manifestHash, t, item, writes) ==
  [chunks |-> m, storage |-> saveToStorage(m, manifestHash, t, item, writes), threw |-> FALSE]

(***************************************************************************)
(* VectorDatabase: chunks and search.                                      *)
(***************************************************************************)
\* removeChunksBySource that stops after the first chunk it deletes.
removeChunksBySource_FirstOnly(m, source) ==
  LET chunksToRemove == SelectSeq(MapValues(m), LAMBDA c : c.metadata.source = source)
  IN  IF chunksToRemove = <<>> THEN m ELSE MapDelete(m, chunksToRemove[1].id)

removeChunksBySource(m, source) ==
  LET chunksToRemove == SelectSeq(MapValues(m), LAMBDA c : c.metadata.source = source)
      RECURSIVE deleteEach(_, _)
      deleteEach(mm, i) ==
        IF i > Len(chunksToRemove) THEN mm
        ELSE deleteEach(MapDelete(mm, chunksToRemove[i].id), i + 1)
  IN  deleteEach(m, 1)

\* The loop of search: similarity of every chunk in Map order; stops at the
\* first cosineSimilarity that throws.
RECURSIVE collect(_, _, _, _)
collect(values, q, i, results) ==
  IF i > Len(values) THEN Returned(results)
  ELSE LET sim == cosineSimilarity(q, values[i].embedding)
       IN  IF sim.threw THEN Threw
           ELSE collect(values, q, i + 1,
                        IF GreaterEq(sim.value, similarityThreshold)
                          THEN Append(results, [chunk |-> values[i], similarity |-> sim.value])
                          ELSE results)

\* Array.prototype.sort with (a, b) => b.similarity - a.similarity: stable,
\* highest first.
RECURSIVE insertDesc(_, _, _)
insertDesc(sorted, r, i) ==
  IF i > Len(sorted) THEN Append(sorted, r)
  ELSE IF Less(sorted[i].similarity, r.similarity)
         THEN SubSeq(sorted, 1, i - 1) \o <<r>> \o SubSeq(sorted, i, Len(sorted))
         ELSE insertDesc(sorted, r, i + 1)

RECURSIVE sortDesc(_, _, _)
sortDesc(rs, i, sorted) ==
  IF i > Len(rs) THEN sorted ELSE sortDesc(rs, i + 1, insertDesc(sorted, rs[i], 1))

\* Array.prototype.slice(0, limit)
slice0(rs, limit) ==
  LET end == IF limit < 0 THEN (IF Len(rs) + limit < 0 THEN 0 ELSE Len(rs) + limit)
             ELSE (IF limit > Len(rs) THEN Len(rs) ELSE limit)
  IN  SubSeq(rs, 1, end)

\* search that cuts the list to limit without sorting it.
search_NoSort(m, q, limit) ==
  LET results == collect(MapValues(m), q, 1, <<>>)
  IN  IF results.threw THEN Threw
      ELSE Returned(slice0(SelectSeq(results.value,
                                     LAMBDA r : Greater(r.similarity, noiseFloor)),
                           limit))

search(m, q, limit) ==
  LET results == collect(MapValues(m), q, 1, <<>>)
  IN  IF results.threw THEN Threw
      ELSE Returned(slice0(sortDesc(SelectSeq(results.value,
                                              LAMBDA r : Greater(r.similarity, noiseFloor)),
                                    1, <<>>),
                           limit))

(***************************************************************************)
(* DocumentLoader.chunkText.  A string is a sequence of one-character      *)
(* strings.                                                                *)
(***************************************************************************)
chunkSize == 800
minSectionLength == 50
minChunkLength == 50

IsSpace(c) == c \in {" ", "\t", "\n", "\r"}

IsTerminator(c) == c \in {".", "!", "?"}

MinOf(S) == CHOOSE x \in S : \A y \in S : x <= y

MaxOf(S) == 0 - MinOf({0 - x : x \in S})

\* String.prototype.trim
trim(str) ==
  LET inked == {i \in 1..Len(str) : ~IsSpace(str[i])}
  IN  IF inked = {} THEN <<>> ELSE SubSeq(str, MinOf(inked), MaxOf(inked))

\* text.replace(/\r\n/g, '\n').replace(/\r/g, '\n')
cleanLineEndings(text) ==
  LET withNext == [i \in 1..Len(text) |->
                     <<text[i], IF i < Len(text) THEN text[i + 1] ELSE "">>]
      kept == SelectSeq(withNext, LAMBDA p : ~(p[1] = "\r" /\ p[2] = "\n"))
  IN  [i \in 1..Len(kept) |-> IF kept[i][1] = "\r" THEN "\n" ELSE kept[i][1]]

\* The match of /\n\s*\n/ that starts at i ends at the last newline of the
\* white space that follows i; 0 when there is no match at i.
dividerEnd(text, i) ==
  LET ends == {j \in (i + 1)..Len(text) :
                 /\ text[j] = "\n"
                 /\ \A k \in (i + 1)..(j - 1) : IsSpace(text[k])}
  IN  IF text[i] = "\n" /\ ends # {} THEN MaxOf(ends) ELSE 0

\* text.split(/\n\s*\n/), from position pos on
RECURSIVE splitSections(_, _)
splitSections(text, pos) ==
  LET starts == {i \in pos..Len(text) : dividerEnd(text, i) # 0}
  IN  IF starts = {} THEN <<SubSeq(text, pos, Len(text))>>
      ELSE LET i == MinOf(starts)
           IN  <<SubSeq(text, pos, i - 1)>> \o splitSections(text, dividerEnd(text, i) + 1)

\* section.split(/[.!?]+/).filter(s => s.trim().length > 0), from position pos on
RECURSIVE splitSentences(_, _)
splitSentences(section, pos) ==
  LET starts == {i \in pos..Len(section) : ~IsTerminator(section[i])}
  IN  IF starts = {} THEN <<>>
      ELSE LET first == MinOf(starts)
               stops == {j \in first..Len(section) : IsTerminator(section[j])}
               last == IF stops = {} THEN Len(section) ELSE MinOf(stops) - 1
               sentence == SubSeq(section, first, last)
           IN  (IF Len(trim(sentence)) > 0 THEN <<sentence>> ELSE <<>>)
                 \o splitSentences(section, last + 1)

\* The loop over the sentences of an oversized section.
RECURSIVE accumulate(_, _, _, _)
accumulate(sentences, i, currentChunk, out) ==
  IF i > Len(sentences)
    THEN IF currentChunk # <<>> THEN Append(out, currentChunk \o <<".">>) ELSE out
  ELSE LET trimmedSentence == trim(sentences[i])
           potentialChunk == currentChunk
                               \o (IF currentChunk # <<>> THEN <<".", " ">> ELSE <<>>)
                               \o trimmedSentence
       IN  IF trimmedSentence = <<>> THEN accumulate(sentences, i + 1, currentChunk, out)
           ELSE IF Len(potentialChunk) <= chunkSize
             THEN accumulate(sentences, i + 1, potentialChunk, out)
             ELSE accumulate(sentences, i + 1, trimmedSentence,
                             IF currentChunk # <<>> THEN Append(out, currentChunk \o <<".">>)
                                                    ELSE out)

\* chunkSections that puts the chunks of a section before those of the
\* sections that came earlier.
RECURSIVE chunkSections_Prepends(_, _, _)
chunkSections_Prepends(sections, i, out) ==
  IF i > Len(sections) THEN out
  ELSE LET trimmedSection == trim(sections[i])
       IN  IF Len(trimmedSection) < minSectionLength
             THEN chunkSections_Prepends(sections, i + 1, out)
           ELSE IF Len(trimmedSection) <= chunkSize
             THEN chunkSections_Prepends(sections, i + 1, <<trimmedSection>> \o out)
             ELSE chunkSections_Prepends(sections, i + 1,
                                         accumulate(splitSentences(trimmedSection, 1), 1,
                                                    <<>>, <<>>) \o out)

RECURSIVE chunkSections(_, _, _)
chunkSections(sections, i, out) ==
  IF i > Len(sections) THEN out
  ELSE LET trimmedSection == trim(sections[i])
       IN  IF Len(trimmedSection) < minSectionLength THEN chunkSections(sections, i + 1, out)
           ELSE IF Len(trimmedSection) <= chunkSize
             THEN chunkSections(sections, i + 1, Append(out, trimmedSection))
             ELSE chunkSections(sections, i + 1,
                                accumulate(splitSentences(trimmedSection, 1), 1, <<>>, out))

\* chunkText without the filter on the length of the chunks.
chunkText_NoFilter(text) ==
  chunkSections(splitSections(cleanLineEndings(text), 1), 1, <<>>)

chunkText(text) ==
  LET sections == splitSections(cleanLineEndings(text), 1)
  IN  SelectSeq(chunkSections(sections, 1, <<>>), LAMBDA c : Len(c) > minChunkLength)

(***************************************************************************)
(* The chat side: the AppContext state with its reducer, the routing test  *)
(* of sendMessage and OpenAIService.orchestrateQuery.                      *)
(***************************************************************************)
maxRetrievedChunks == 5

initialState ==
  [messages |-> <<>>, isLoading |-> FALSE, error |-> Null, reasoning |-> Null,
   settings |-> [apiKey |-> "", retrievalCount |-> maxRetrievedChunks]]

\* appReducer, one operator for each action type.
ADD_MESSAGE(s, message) == [s EXCEPT !.messages = Append(@, message)]

SET_LOADING(s, payload) == [s EXCEPT !.isLoading = payload]

SET_ERROR(s, payload) == [s EXCEPT !.error = payload, !.isLoading = FALSE]

CLEAR_ERROR(s) == [s EXCEPT !.error = Null]

SET_REASONING(s, payload) == [s EXCEPT !.reasoning = payload]

getChunkCount(m) == MapSize(m)

\* String.prototype.includes
includes(str, searchString) ==
  \E i \in 0..(Len(str) - Len(searchString)) :
     SubSeq(str, i + 1, i + Len(searchString)) = searchString

\* String.prototype.split with a one-character separator: the pieces
\* between the occurrences of the separator, empty pieces included.
split(str, separator) ==
  LET at == {i \in 1..Len(str) : str[i] = separator}
      cut(k) == IF k = 0 THEN 0
                ELSE IF k > Cardinality(at) THEN Len(str) + 1
                ELSE CHOOSE i \in at : Cardinality({j \in at : j < i}) = k - 1
  IN  [k \in 1..(Cardinality(at) + 1) |-> SubSeq(str, cut(k - 1) + 1, cut(k) - 1)]

signalWords ==
  << <<"c", "o", "m", "p", "a", "r", "e">>,
     <<"d", "i", "f", "f", "e", "r", "e", "n", "c", "e">>,
     <<"v", "s">>,
     <<"v", "e", "r", "s", "u", "s">>,
     <<"w", "h", "i", "c", "h">>,
     <<"h", "o", "w">>,
     <<"w", "h", "a", "t", " ", "a", "r", "e">>,
     <<"e", "x", "p", "l", "a", "i", "n">> >>

shouldOrchestrate_WordsOnly(content) ==
  Len(content) > 50 /\ Len(split(content, " ")) > 8

shouldOrchestrate(content) ==
  /\ Len(content) > 50
  /\ \/ \E w \in 1..Len(signalWords) : includes(content, signalWords[w])
     \/ Len(split(content, " ")) > 8

\* The branch sendMessage takes.
route_AnyStore(content, m) ==
  IF shouldOrchestrate(content) THEN "compound" ELSE "simple"

route(content, m) ==
  IF shouldOrchestrate(content) /\ getChunkCount(m) > 10 THEN "compound" ELSE "simple"

\* A parsed JSON value.
JsonArray(items) == [type |-> "array", items |-> items]

JsonObject == [type |-> "object"]

ArrayIsArray(v) == v.type = "array"

\* What the chat completion request of orchestrateQuery can give: fetch
\* rejects, the response is not ok, its body has no choices[0].message, or
\* it carries a message whose content is a string.
Rejects == [kind |-> "rejects"]

NotOk == [kind |-> "notOk"]

Malformed == [kind |-> "malformed"]

Content(text) == [kind |-> "content", text |-> text]

orchestrateQuery_NoCap(query, outcome) ==
  IF outcome.kind # "content" \/ ~JSONparses(outcome.text) THEN <<query>>
  ELSE LET subtopics == JSONparse(outcome.text)
       IN  IF ArrayIsArray(subtopics) /\ Len(subtopics.items) > 0
             THEN subtopics.items
             ELSE <<query>>

orchestrateQuery_KeepsEmpty(query, outcome) ==
  IF outcome.kind # "content" \/ ~JSONparses(outcome.text) THEN <<query>>
  ELSE LET subtopics == JSONparse(outcome.text)
       IN  IF ArrayIsArray(subtopics) THEN slice0(subtopics.items, 7) ELSE <<query>>

orchestrateQuery(query, outcome) ==
  IF outcome.kind # "content" \/ ~JSONparses(outcome.text) THEN <<query>>
  ELSE LET subtopics == JSONparse(outcome.text)
       IN  IF ArrayIsArray(subtopics) /\ Len(subtopics.items) > 0
             THEN slice0(subtopics.items, 7)
             ELSE <<query>>

(***************************************************************************)
(* Operations of one VectorDatabase instance.  ret records the last call:  *)
(* its name, its arguments, the state it was called in and what it         *)
(* returned.                                                               *)
(***************************************************************************)
Pre == [chunks |-> chunks, storage |-> storage, isInitialized |-> isInitialized, now |-> now]

\* No loadPredefinedDocuments call has been made.  Besides the position and
\* the locals of the call, the record keeps the hook's vectorDbStatus and
\* documents, the store as the call found it (entry), and what the call
\* has asked of its services: the number of generateEmbedding and clear
\* calls and the finalizeBatch calls with their arguments.  It also keeps
\* what guards the start of initializeKnowledgeBase: the flags of the
\* module, isInitializing and hasInitialized, the initStartedRef of every
\* hook instance, and the number of initializeKnowledgeBase calls that have
\* started and not reached their finally (running).
MaxHooks == 3

NotLoading ==
  [pc |-> "idle", n |-> 0, documentFiles |-> <<>>, needsUpdate |-> FALSE,
   currentHash |-> [defined |-> FALSE], tasks |-> <<>>, rebuilt |-> FALSE,
   result |-> [isNull |-> TRUE],
   status |-> "disconnected", documents |-> <<>>, entry |-> [isNull |-> TRUE],
   embeddingCalls |-> 0, clears |-> 0, finalized |-> <<>>,
   isInitializing |-> FALSE, hasInitialized |-> FALSE,
   initStartedRef |-> [h \in 1..MaxHooks |-> FALSE], running |-> 0]

\* lastSaved is the Map that the snapshot now under STORAGE_KEY was written
\* from by finalizeBatch; NotSaved when no such snapshot is stored.
NotSaved == [saved |-> FALSE]

SavedFrom(m) == [saved |-> TRUE, chunks |-> m]

KeepSaved(item) == IF item = NoItem THEN NotSaved ELSE lastSaved

\* if (!this.isInitialized) await this.initialize()
ensureInitialized ==
  IF isInitialized THEN [chunks |-> chunks, storage |-> storage, threw |-> FALSE]
                   ELSE initialize(chunks, storage, now)

\* new VectorDatabase() on a page load; localStorage outlives the instance.
NewInstance ==
  /\ chunks' = EmptyMap
  /\ isInitialized' = FALSE
  /\ ret' = [op |-> "new", pre |-> Pre]
  /\ UNCHANGED <<storage, now, ticks, lastSaved, load, state, queries>>

Initialize ==
  LET r == initialize(chunks, storage, now)
  IN  /\ chunks' = r.chunks
      /\ storage' = r.storage
      /\ isInitialized' = (isInitialized \/ ~r.threw)
      /\ ret' = [op |-> "initialize", pre |-> Pre, threw |-> r.threw]
      /\ lastSaved' = KeepSaved(r.storage)
      /\ UNCHANGED <<now, ticks, load, state, queries>>

AddChunk(chunk) ==
  LET r == ensureInitialized
  IN  /\ chunks' = IF r.threw THEN r.chunks ELSE MapSet(r.chunks, chunk.id, chunk)
      /\ storage' = r.storage
      /\ isInitialized' = (isInitialized \/ ~r.threw)
      /\ ret' = [op |-> "addChunk", pre |-> Pre, chunk |-> chunk, threw |-> r.threw]
      /\ lastSaved' = KeepSaved(r.storage)
      /\ UNCHANGED <<now, ticks, load, state, queries>>

RemoveChunksBySource(source) ==
  /\ chunks' = removeChunksBySource(chunks, source)
  /\ ret' = [op |-> "removeChunksBySource", pre |-> Pre, source |-> source, threw |-> FALSE]
  /\ UNCHANGED <<isInitialized, storage, now, ticks, lastSaved, load, state, queries>>

Search(queryEmbedding, limit) ==
  LET r == ensureInitialized
  IN  /\ chunks' = r.chunks
      /\ storage' = r.storage
      /\ isInitialized' = (isInitialized \/ ~r.threw)
      /\ ret' = [op |-> "search", pre |-> Pre, queryEmbedding |-> queryEmbedding,
                 limit |-> limit,
                 out |-> IF r.threw THEN Threw ELSE search(r.chunks, queryEmbedding, limit)]
      /\ lastSaved' = KeepSaved(r.storage)
      /\ UNCHANGED <<now, ticks, load, state, queries>>

Clear ==
  LET r == clear(chunks, storage)
  IN  /\ chunks' = r.chunks
      /\ storage' = r.storage
      /\ ret' = [op |-> "clear", pre |-> Pre, threw |-> r.threw]
      /\ lastSaved' = NotSaved
      /\ UNCHANGED <<isInitialized, now, ticks, load, state, queries>>

FinalizeBatch(manifestHash, writes) ==
  LET r == finalizeBatch(chunks, manifestHash, now, storage, writes)
  IN  /\ chunks' = r.chunks
      /\ storage' = r.storage
      /\ ret' = [op |-> "finalizeBatch", pre |-> Pre, manifestHash |-> manifestHash,
                 writes |-> Written(storage, writes), threw |-> r.threw]
      /\ lastSaved' = IF Written(storage, writes) THEN SavedFrom(chunks) ELSE lastSaved
      /\ UNCHANGED <<isInitialized, now, ticks, load, state, queries>>

\* What the call before this one returned, when that call was a
\* checkIfUpdateNeeded too.
PreviousCheck ==
  IF ret.op = "checkIfUpdateNeeded" THEN Defined(ret.needsUpdate) ELSE Undefined

CheckIfUpdateNeeded ==
  LET r == checkIfUpdateNeeded(chunks, storage, now)
  IN  /\ storage' = r.storage
      /\ ret' = [op |-> "checkIfUpdateNeeded", pre |-> Pre, previous |-> PreviousCheck,
                 needsUpdate |-> r.needsUpdate, currentHash |-> r.currentHash,
                 threw |-> FALSE]
      /\ lastSaved' = KeepSaved(r.storage)
      /\ UNCHANGED <<chunks, isInitialized, now, ticks, load, state, queries>>

\* Date.now() advances between calls.
Tick(d) ==
  /\ ticks < MaxTicks
  /\ now' = now + d
  /\ ticks' = ticks + 1
  /\ UNCHANGED <<chunks, isInitialized, storage, lastSaved, ret, load, state, queries>>

\* The model keeps the store at no more than max chunks.
Fits(chunk, max) == MapSize(MapSet(ensureInitialized.chunks, chunk.id, chunk)) <= max

(***************************************************************************)
(* Inputs.                                                                 *)
(***************************************************************************)
Chunk(id, content, embedding, source, chunkIndex) ==
  [id |-> id, content |-> content, embedding |-> embedding,
   metadata |-> [source |-> source, chunkIndex |-> chunkIndex, timestamp |-> 0]]

Elapsed == {1, recentWindow - 1, maxAge}

StoreChunks ==
  { Chunk("c1", "A", <<1, 0>>, "doc1", 0),
    Chunk("c1", "B", <<0, 1>>, "doc2", 0),
    Chunk("c2", "B", <<1, 0>>, "doc1", 1) }

StoreQueries == {<<1, 0>>, <<1>>}

\* What an earlier page load can have left under STORAGE_KEY: nothing, a
\* damaged item, or the snapshot of a build with another VERSION; or the
\* browser denies the page its localStorage.
InitStorage ==
  { NoItem, NotJson, Denied,
    JSONstringify([chunks |-> <<Chunk("c1", "A", <<1, 0>>, "doc1", 0)>>,
                   manifestHash |-> currentHashValue, timestamp |-> 0,
                   version |-> "0.9.0"]) }

Hashes == {currentHashValue, otherHashValue}

(***************************************************************************)
(* Spec: the store with its persisted snapshot.                            *)
(***************************************************************************)
Init ==
  /\ chunks = EmptyMap
  /\ isInitialized = FALSE
  /\ storage \in InitStorage
  /\ now = 0
  /\ ticks = 0
  /\ lastSaved = NotSaved
  /\ ret = [op |-> "none"]
  /\ load = NotLoading
  /\ state = initialState
  /\ queries = <<>>

Next ==
  \/ NewInstance
  \/ Initialize
  \/ \E c \in StoreChunks : Fits(c, MaxChunks) /\ AddChunk(c)
  \/ \E s \in {"doc1", "doc2"} : RemoveChunksBySource(s)
  \/ \E q \in StoreQueries : Search(q, 1)
  \/ Clear
  \/ \E h \in Hashes, w \in BOOLEAN : FinalizeBatch(h, w)
  \/ CheckIfUpdateNeeded
  \/ \E d \in Elapsed : Tick(d)

Spec == Init /\ [][Next]_vars

(***************************************************************************)
(* SpecSearch: similarity search over a store of two-component embeddings. *)
(***************************************************************************)
MaxSearchChunks == 2
MaxLimit == 2

SearchEmbeddings ==
  {<<1, 0>>, <<2, 0>>, <<3, 1>>, <<1, 2>>, <<0, 0>>}

SearchChunks ==
  { Chunk(id, "A", e, IF id = "c3" THEN "doc2" ELSE "doc1", 0) :
      id \in {"c1", "c2", "c3"}, e \in SearchEmbeddings }

SearchQueries == {<<1, 0>>, <<1, 1>>, <<0, 0>>, <<1>>, <<1, 0, 0>>}

\* A snapshot that finalizeBatch of an earlier page load wrote from a store
\* holding one chunk.
EarlierMap == MapSet(EmptyMap, "c1", Chunk("c1", "A", <<3, 1>>, "doc1", 0))

EarlierSnapshot == saveToStorage(EarlierMap, currentHashValue, 0, NoItem, TRUE)

InitSearch ==
  /\ chunks = EmptyMap
  /\ isInitialized = FALSE
  /\ \/ storage = NoItem /\ lastSaved = NotSaved
     \/ storage = EarlierSnapshot /\ lastSaved = SavedFrom(EarlierMap)
  /\ now = 0
  /\ ticks = 0
  /\ ret = [op |-> "none"]
  /\ load = NotLoading
  /\ state = initialState
  /\ queries = <<>>

NextSearch ==
  \/ \E c \in SearchChunks : Fits(c, MaxSearchChunks) /\ AddChunk(c)
  \/ \E s \in {"doc1", "doc2"} : RemoveChunksBySource(s)
  \/ \E q \in SearchQueries, limit \in 0..MaxLimit : Search(q, limit)

SpecSearch == InitSearch /\ [][NextSearch]_vars

(***************************************************************************)
(* SpecCos: cosineSimilarity applied to every pair of small vectors.       *)
(***************************************************************************)
MaxDim == 2

Components == {-1, 0, 1, 2}

Vectors == UNION { [1..n -> Components] : n \in 0..MaxDim }

InitCos ==
  /\ chunks = EmptyMap
  /\ isInitialized = FALSE
  /\ storage = NoItem
  /\ now = 0
  /\ ticks = 0
  /\ lastSaved = NotSaved
  /\ \E a \in Vectors, b \in Vectors : ret = [op |-> "vectors", a |-> a, b |-> b]
  /\ load = NotLoading
  /\ state = initialState
  /\ queries = <<>>

CosineSimilarity ==
  /\ ret.op = "vectors"
  /\ ret' = [op |-> "cosineSimilarity", a |-> ret.a, b |-> ret.b,
             out |-> cosineSimilarity(ret.a, ret.b)]
  /\ UNCHANGED <<chunks, isInitialized, storage, now, ticks, lastSaved, load, state, queries>>

NextCos == CosineSimilarity

SpecCos == InitCos /\ [][NextCos]_vars

(***************************************************************************)
(* DocumentLoader.loadPredefinedDocuments, as started by the hook's        *)
(* initializeKnowledgeBase.  One action per stretch of code between two    *)
(* awaits; the per-document tasks interleave at their awaits.              *)
(*                                                                         *)
(* load.pc:  idle -> manifest -> checked -> (done | cleared -> tasks ->    *)
(* done), or done at once when initialize or clear throws.  A task:        *)
(* fetch -> extract -> (embed -> added -> delay)* -> ok, or failed from    *)
(* any of them.  generateId is taken to return a different id for every    *)
(* document of a load; the id of task k is k.  The hook starts a load only *)
(* while vectorDbStatus is disconnected, so once per page load.            *)
(***************************************************************************)
MaxLoads == 2

Rep(c, n) == [i \in 1..n |-> c]

TextOneChunk == Rep("a", 51)

TextTwoChunks == Rep("a", 51) \o <<"\n", "\n">> \o Rep("b", 51)

TextShort == <<"h", "i">>

TextBlank == <<" ">>

declaredFiles == <<"a.txt", "b.pdf">>

\* The manifest of a deployment that declares the same files in another order.
reorderedFiles == <<"b.pdf", "a.txt">>

fallbackFiles ==
  <<"Claude.docx", "DeepSeek.docx", "Combined using Claude.docx", "GPT.docx", "Gemini.docx">>

\* filename.toLowerCase().split('.').pop()
extension(filename) ==
  IF filename = "a.txt" THEN "txt" ELSE IF filename = "b.pdf" THEN "pdf" ELSE "docx"

\* What the fetch of /documents/manifest.json can give: a manifest, a
\* response that is not ok, or an exception.
ManifestOutcomes ==
  { [kind |-> "ok", documents |-> declaredFiles], [kind |-> "ok", documents |-> reorderedFiles],
    [kind |-> "notOk"], [kind |-> "throws"] }

\* Whether the fetch of a document can succeed: the files of the fallback
\* list are not served.
FetchOutcomes(filename) == IF extension(filename) = "docx" THEN {FALSE} ELSE BOOLEAN

\* What text extraction can give for a fetched document.
ExtractOutcomes(filename) ==
  IF extension(filename) = "pdf"
    THEN { [kind |-> "throws"], [kind |-> "text", text |-> TextOneChunk],
           [kind |-> "text", text |-> TextBlank] }
    ELSE { [kind |-> "throws"], [kind |-> "text", text |-> TextTwoChunks],
           [kind |-> "text", text |-> TextShort], [kind |-> "text", text |-> TextBlank] }

\* What generateEmbedding can give: a vector, or an exception.
EmbeddingOutcomes == { [kind |-> "throws"], [kind |-> "vector", embedding |-> <<1, 0>>] }

generateId(k) == k

Idle == load.pc \in {"idle", "done"}

Task(filename) ==
  [pc |-> "fetch", name |-> filename, chunks |-> <<>>, i |-> 0, document |-> Null,
   error |-> "none"]

Failed(task, step) == [task EXCEPT !.pc = "failed", !.error = step]

\* getDocumentMetadata(documentFiles)
getDocumentMetadata(files) ==
  [index \in 1..Len(files) |->
     [id |-> <<"cached", index - 1>>, name |-> files[index], chunks |-> 0, size |-> 0]]

\* results.filter(doc => doc !== null) that keeps the null results.
successfulDocuments_KeepsNull(tasks) == [k \in 1..Len(tasks) |-> tasks[k].document]

\* The successful documents in the order in which their tasks put their
\* last chunk into the store, as a list the tasks push to when they finish
\* would hold them.
successfulDocuments_AsFinished(tasks) ==
  LET lastIn(task) == MaxOf({0} \cup {j \in 1..Len(chunks) :
                                        chunks[j].value.metadata.source = task.name})
      finished == SortSeq(SelectSeq(tasks, LAMBDA task : task.pc = "ok"),
                          LAMBDA s, t : lastIn(s) < lastIn(t))
  IN  [j \in 1..Len(finished) |-> finished[j].document]

\* results.filter(doc => doc !== null)
successfulDocuments(tasks) ==
  LET results == [k \in 1..Len(tasks) |->
                    IF tasks[k].pc = "ok" THEN tasks[k].document ELSE Null]
  IN  SelectSeq(results, LAMBDA doc : doc # Null)

\* initializeKnowledgeBase from the return of loadPredefinedDocuments on
\* (out: what the call returned, or Threw for an exception of it or of
\* initialize): no document counts as an error, and the catch block sets the
\* error status; otherwise every document is added and the status is
\* connected.
knowledgeBaseStatus_NeedsTwo(out) ==
  IF out.threw \/ Len(out.value) < 2
    THEN [status |-> "error", documents |-> <<>>]
    ELSE [status |-> "connected", documents |-> out.value]

knowledgeBaseStatus(out) ==
  IF out.threw \/ Len(out.value) = 0
    THEN [status |-> "error", documents |-> <<>>]
    ELSE [status |-> "connected", documents |-> out.value]

\* loadPredefinedDocuments returns or throws, and initializeKnowledgeBase
\* runs to its end.
Settled(l, out) ==
  LET failed == knowledgeBaseStatus(out).status = "error"
  IN  [l EXCEPT !.pc = "done", !.result = out,
                !.status = knowledgeBaseStatus(out).status,
                !.documents = knowledgeBaseStatus(out).documents,
                !.hasInitialized = ~failed,
                !.initStartedRef = IF failed THEN [h \in 1..MaxHooks |-> FALSE] ELSE @,
                !.isInitializing = FALSE,
                !.running = @ - 1]

\* shouldInitialize that does not look at the flags of the module.
shouldInitialize_OwnRefOnly(l, s, vectorDbStatus, h) ==
  /\ s.settings.apiKey # ""
  /\ ~l.initStartedRef[h]
  /\ vectorDbStatus = "disconnected"

\* The test of the effect of hook instance h, run with the state s and the
\* vectorDbStatus of the render the effect belongs to.
shouldInitialize(l, s, vectorDbStatus, h) ==
  /\ s.settings.apiKey # ""
  /\ ~l.isInitializing
  /\ ~l.hasInitialized
  /\ ~l.initStartedRef[h]
  /\ vectorDbStatus = "disconnected"

\* The effects of the hook instances h..MaxHooks of one render, one after
\* the other: an effect that passes the test sets its ref and
\* isInitializing and calls initializeKnowledgeBase, which runs up to its
\* first await.
RECURSIVE runEffects(_, _, _, _)
runEffects(l, s, vectorDbStatus, h) ==
  IF h > MaxHooks THEN l
  ELSE IF shouldInitialize(l, s, vectorDbStatus, h)
    THEN runEffects([l EXCEPT !.initStartedRef[h] = TRUE, !.isInitializing = TRUE,
                              !.running = @ + 1, !.status = "initializing"],
                    s, vectorDbStatus, h + 1)
    ELSE runEffects(l, s, vectorDbStatus, h + 1)

\* useRAG: the effects of a render; one that passes its test starts
\* initializeKnowledgeBase: await vdb.initialize();
\* dl.loadPredefinedDocuments(), up to the fetch of the manifest.  An
\* exception of initialize ends it.
StartLoad ==
  LET r == initialize(chunks, storage, now)
      effects == runEffects(load, state, load.status, 1)
      started == [effects EXCEPT !.n = load.n + 1]
  IN  /\ effects.running > load.running
      /\ load.n < MaxLoads
      /\ chunks' = r.chunks
      /\ storage' = r.storage
      /\ isInitialized' = (isInitialized \/ ~r.threw)
      /\ lastSaved' = KeepSaved(r.storage)
      /\ load' = IF r.threw THEN Settled(started, Threw)
                 ELSE [started EXCEPT !.pc = "manifest",
                                      !.entry = [chunks |-> r.chunks, storage |-> r.storage]]
      /\ UNCHANGED <<now, ticks, ret, state, queries>>

\* The manifest fetch settles; checkIfUpdateNeeded runs.
ManifestFetched(outcome) ==
  LET r == checkIfUpdateNeeded(chunks, storage, now)
  IN  /\ load.pc = "manifest"
      /\ storage' = r.storage
      /\ lastSaved' = KeepSaved(r.storage)
      /\ ret' = [op |-> "checkIfUpdateNeeded", pre |-> Pre, previous |-> PreviousCheck,
                 needsUpdate |-> r.needsUpdate, currentHash |-> r.currentHash,
                 threw |-> FALSE]
      /\ load' = [load EXCEPT
                    !.pc = "checked",
                    !.documentFiles = IF outcome.kind = "ok" THEN outcome.documents
                                      ELSE IF outcome.kind = "throws" THEN fallbackFiles
                                      ELSE <<>>,
                    !.needsUpdate = r.needsUpdate,
                    !.currentHash = r.currentHash]
      /\ UNCHANGED <<chunks, isInitialized, now, ticks, state, queries>>

\* ReturnCached that clears the store first.
ReturnCached_Clears ==
  /\ load.pc = "checked"
  /\ ~load.needsUpdate
  /\ chunks' = clear(chunks, storage).chunks
  /\ storage' = clear(chunks, storage).storage
  /\ lastSaved' = NotSaved
  /\ load' = Settled([load EXCEPT !.clears = @ + 1],
                     Returned(getDocumentMetadata(load.documentFiles)))
  /\ UNCHANGED <<isInitialized, now, ticks, ret, state, queries>>

\* Up to date: return the metadata placeholders.
ReturnCached ==
  /\ load.pc = "checked"
  /\ ~load.needsUpdate
  /\ load' = Settled(load, Returned(getDocumentMetadata(load.documentFiles)))
  /\ UNCHANGED <<chunks, isInitialized, storage, now, ticks, lastSaved, ret, state, queries>>

\* Update needed: vectorDb.clear(), outside the try block: an exception of
\* clear leaves loadPredefinedDocuments.
ClearForRebuild ==
  LET r == clear(chunks, storage)
      called == [load EXCEPT !.clears = @ + 1]
  IN  /\ load.pc = "checked"
      /\ load.needsUpdate
      /\ chunks' = r.chunks
      /\ storage' = r.storage
      /\ lastSaved' = NotSaved
      /\ load' = IF r.threw THEN Settled(called, Threw)
                 ELSE [called EXCEPT !.pc = "cleared", !.rebuilt = TRUE]
      /\ UNCHANGED <<isInitialized, now, ticks, ret, state, queries>>

\* documentFiles.map(async ...): every task runs up to its fetch.
StartTasks ==
  /\ load.pc = "cleared"
  /\ load' = [load EXCEPT
                !.pc = "tasks",
                !.tasks = [k \in 1..Len(load.documentFiles) |-> Task(load.documentFiles[k])]]
  /\ UNCHANGED <<chunks, isInitialized, storage, now, ticks, lastSaved, ret, state, queries>>

\* loadDocumentContent: the fetch of the document settles.
TaskFetched(k, ok) ==
  /\ load.pc = "tasks"
  /\ load.tasks[k].pc = "fetch"
  /\ load' = [load EXCEPT !.tasks[k] = IF ok THEN [@ EXCEPT !.pc = "extract"]
                                              ELSE Failed(@, "fetch")]
  /\ UNCHANGED <<chunks, isInitialized, storage, now, ticks, lastSaved, ret, state, queries>>

\* loadDocumentContent returns or throws; processDocument runs up to the
\* first generateEmbedding.
TaskExtracted(k, outcome) ==
  LET task == load.tasks[k]
      emptyPdf == extension(task.name) = "pdf" /\ Len(trim(outcome.text)) = 0
      pieces == chunkText(outcome.text)
      document == [id |-> generateId(k), name |-> task.name, chunks |-> Len(pieces),
                   size |-> Len(outcome.text)]
  IN  /\ load.pc = "tasks"
      /\ task.pc = "extract"
      /\ load' = [load EXCEPT
                    !.tasks[k] =
                      IF outcome.kind = "throws" THEN Failed(@, "extract")
                      ELSE IF emptyPdf THEN Failed(@, "extract")
                      ELSE IF Len(trim(outcome.text)) = 0 THEN Failed(@, "empty")
                      ELSE [@ EXCEPT !.pc = IF Len(pieces) = 0 THEN "ok" ELSE "embed",
                                     !.chunks = pieces, !.document = document],
                    !.embeddingCalls =
                      IF outcome.kind = "text" /\ Len(trim(outcome.text)) > 0
                           /\ Len(pieces) > 0
                        THEN @ + 1 ELSE @]
      /\ UNCHANGED <<chunks, isInitialized, storage, now, ticks, lastSaved, ret, state, queries>>

\* TaskEmbedded that goes on without waiting for addChunk, which never
\* puts the chunk into the store.
TaskEmbedded_Detached(k, outcome) ==
  LET task == load.tasks[k]
  IN  /\ load.pc = "tasks"
      /\ task.pc = "embed"
      /\ load' = [load EXCEPT !.tasks[k] = IF outcome.kind = "throws" THEN Failed(@, "embed")
                                           ELSE [@ EXCEPT !.pc = "added"]]
      /\ UNCHANGED <<chunks, isInitialized, storage, lastSaved, now, ticks, ret, state, queries>>

\* generateEmbedding settles; on success the chunk goes into the store.
TaskEmbedded(k, outcome) ==
  LET task == load.tasks[k]
      vectorChunk == [id |-> <<task.document.id, task.i>>,
                      content |-> task.chunks[task.i + 1],
                      embedding |-> outcome.embedding,
                      metadata |-> [source |-> task.document.name, chunkIndex |-> task.i,
                                    timestamp |-> now]]
      r == ensureInitialized
  IN  /\ load.pc = "tasks"
      /\ task.pc = "embed"
      /\ IF outcome.kind = "throws"
           THEN /\ load' = [load EXCEPT !.tasks[k] = Failed(@, "embed")]
                /\ UNCHANGED <<chunks, isInitialized, storage, lastSaved>>
           ELSE /\ chunks' = IF r.threw THEN r.chunks
                             ELSE MapSet(r.chunks, vectorChunk.id, vectorChunk)
                /\ storage' = r.storage
                /\ isInitialized' = (isInitialized \/ ~r.threw)
                /\ lastSaved' = KeepSaved(r.storage)
                /\ load' = [load EXCEPT !.tasks[k] = IF r.threw THEN Failed(@, "add")
                                                     ELSE [@ EXCEPT !.pc = "added"]]
      /\ UNCHANGED <<now, ticks, ret, state, queries>>

\* After addChunk: wait 100 ms before the next chunk, or return the document.
TaskAdded(k) ==
  LET task == load.tasks[k]
  IN  /\ load.pc = "tasks"
      /\ task.pc = "added"
      /\ load' = [load EXCEPT !.tasks[k].pc =
                    IF task.i < Len(task.chunks) - 1 THEN "delay" ELSE "ok"]
      /\ UNCHANGED <<chunks, isInitialized, storage, now, ticks, lastSaved, ret, state, queries>>

\* The 100 ms are over: generateEmbedding for the next chunk.
TaskDelayed(k) ==
  /\ load.pc = "tasks"
  /\ load.tasks[k].pc = "delay"
  /\ load' = [load EXCEPT !.tasks[k].pc = "embed", !.tasks[k].i = @ + 1,
                          !.embeddingCalls = @ + 1]
  /\ UNCHANGED <<chunks, isInitialized, storage, now, ticks, lastSaved, ret, state, queries>>

\* The snapshot now under STORAGE_KEY was written from the Map m by the
\* rebuild of a load whose document list was files.
BuiltFrom(m, files) == [saved |-> TRUE, chunks |-> m, files |-> files]

\* Every promise of Promise.all has settled.
AllSettled == \A k \in 1..Len(load.tasks) : load.tasks[k].pc \in {"ok", "failed"}

\* FinishLoad that does not wait for the tasks.
FinishLoad_NoWait(writes) ==
  LET r == finalizeBatch(chunks, load.currentHash.value, now, storage, writes)
      called == [load EXCEPT !.finalized =
                   IF load.currentHash.defined
                     THEN Append(@, [manifestHash |-> load.currentHash.value,
                                     chunks |-> chunks])
                     ELSE @]
  IN  /\ load.pc = "tasks"
      /\ IF load.currentHash.defined
           THEN /\ chunks' = r.chunks
                /\ storage' = r.storage
                /\ lastSaved' = IF Written(storage, writes)
                                  THEN BuiltFrom(chunks, load.documentFiles) ELSE lastSaved
           ELSE UNCHANGED <<chunks, storage, lastSaved>>
      /\ load' = Settled(called, Returned(successfulDocuments(load.tasks)))
      /\ UNCHANGED <<isInitialized, now, ticks, ret, state, queries>>

\* Promise.all settles: finalizeBatch and return the documents.
FinishLoad(writes) ==
  LET r == finalizeBatch(chunks, load.currentHash.value, now, storage, writes)
      called == [load EXCEPT !.finalized =
                   IF load.currentHash.defined
                     THEN Append(@, [manifestHash |-> load.currentHash.value,
                                     chunks |-> chunks])
                     ELSE @]
  IN  /\ load.pc = "tasks"
      /\ AllSettled
      /\ IF load.currentHash.defined
           THEN /\ chunks' = r.chunks
                /\ storage' = r.storage
                /\ lastSaved' = IF Written(storage, writes)
                                  THEN BuiltFrom(chunks, load.documentFiles) ELSE lastSaved
           ELSE UNCHANGED <<chunks, storage, lastSaved>>
      /\ load' = Settled(called, Returned(successfulDocuments(load.tasks)))
      /\ UNCHANGED <<isInitialized, now, ticks, ret, state, queries>>

\* The page is loaded again: new service instances, same localStorage.
Reload ==
  /\ load.pc = "done"
  /\ chunks' = EmptyMap
  /\ isInitialized' = FALSE
  /\ load' = [NotLoading EXCEPT !.n = load.n]
  /\ UNCHANGED <<storage, now, ticks, lastSaved, ret, state, queries>>

InitLoad ==
  /\ chunks = EmptyMap
  /\ isInitialized = FALSE
  /\ storage \in InitStorage
  /\ lastSaved = NotSaved
  /\ now = 0
  /\ ticks = 0
  /\ ret = [op |-> "none"]
  /\ load = NotLoading
  /\ state = [initialState EXCEPT !.settings.apiKey = "sk"]
  /\ queries = <<>>

NextLoad ==
  \/ StartLoad
  \/ \E outcome \in ManifestOutcomes : ManifestFetched(outcome)
  \/ ReturnCached
  \/ ClearForRebuild
  \/ StartTasks
  \/ \E k \in 1..Len(load.tasks) :
       \/ \E ok \in FetchOutcomes(load.tasks[k].name) : TaskFetched(k, ok)
       \/ \E outcome \in ExtractOutcomes(load.tasks[k].name) : TaskExtracted(k, outcome)
       \/ \E outcome \in EmbeddingOutcomes : TaskEmbedded(k, outcome)
       \/ TaskAdded(k)
       \/ TaskDelayed(k)
  \/ \E writes \in BOOLEAN : FinishLoad(writes)
  \/ Reload
  \/ Idle /\ \E d \in Elapsed : Tick(d)

SpecLoad == InitLoad /\ [][NextLoad]_vars

(***************************************************************************)
(* SpecPlan: the routing test of sendMessage and orchestrateQuery, each    *)
(* applied to one query text, one store and one answer of the provider.    *)
(***************************************************************************)
MaxReturned == 8

\* A store that loadPredefinedDocuments has filled with n chunks.
FilledStore(n) ==
  [i \in 1..n |->
     [key |-> <<"chunk", i>>,
      value |-> Chunk(<<"chunk", i>>, "A",
                      IF i % 3 = 0 THEN <<3, 1>> ELSE IF i % 3 = 1 THEN <<1, 0>> ELSE <<0, 1>>,
                      IF i % 2 = 0 THEN "doc2" ELSE "doc1", i)]]

Word(n) == Rep("x", n)

\* n words of k letters with sep between them.
RECURSIVE Words(_, _, _)
Words(n, k, sep) == IF n = 1 THEN Word(k) ELSE Words(n - 1, k, sep) \o sep \o Word(k)

queryShort == <<"a", " ", "b", " ", "c">>

queryShortSignal == <<"h", "o", "w", " ", "a">>

queryLongPlain == Word(51)

queryLongSignal == <<"c", "o", "m", "p", "a", "r", "e", " ">> \o Word(50)

queryFiftySignal == <<"h", "o", "w", " ">> \o Word(46)

queryNineWords == Words(9, 6, <<" ">>)

queryEightWords == Words(8, 7, <<" ">>)

\* Eight words, two spaces after the first.
queryDoubleSpace == Word(7) \o <<" ", " ">> \o Words(7, 7, <<" ">>)

\* Nine words with tabs between them.
queryTabs == Words(9, 6, <<"\t">>)

queryBlank == <<" ", " ">>

PlanContents ==
  { queryShort, queryShortSignal, queryLongPlain, queryLongSignal, queryFiftySignal,
    queryNineWords, queryEightWords, queryDoubleSpace, queryTabs }

Subtopic(i) == <<"t">> \o Rep("x", i)

Decomposed(n) == Content(JSONstringify(JsonArray([i \in 1..n |-> Subtopic(i)])))

FailedDecompositions ==
  { Rejects, NotOk, Malformed, Content(NotJson), Content(JSONstringify(JsonObject)),
    Decomposed(0) }

InitPlan ==
  /\ \E n \in {5, 10, 11} : chunks = FilledStore(n)
  /\ isInitialized = TRUE
  /\ storage = NoItem
  /\ now = 0
  /\ ticks = 0
  /\ lastSaved = NotSaved
  /\ \E content \in PlanContents,
        outcome \in FailedDecompositions \cup {Decomposed(n) : n \in 1..MaxReturned} :
       ret = [op |-> "query", content |-> content, outcome |-> outcome]
  /\ load = NotLoading
  /\ state = initialState
  /\ queries = <<>>

Route ==
  /\ ret.op = "query"
  /\ ret' = [op |-> "route", content |-> ret.content, out |-> route(ret.content, chunks)]
  /\ UNCHANGED <<chunks, isInitialized, storage, now, ticks, lastSaved, load, state, queries>>

OrchestrateQuery ==
  /\ ret.op = "query"
  /\ ret' = [op |-> "orchestrateQuery", query |-> ret.content, outcome |-> ret.outcome,
             out |-> orchestrateQuery(ret.content, ret.outcome)]
  /\ UNCHANGED <<chunks, isInitialized, storage, now, ticks, lastSaved, load, state, queries>>

NextPlan ==
  \/ Route
  \/ OrchestrateQuery

SpecPlan == InitPlan /\ [][NextPlan]_vars

(***************************************************************************)
(* sendMessage of the useRAG hook.  queries holds the calls in the order   *)
(* they were made; a call is at an await (pc) until it has returned.  A    *)
(* message or reasoning state in the AppContext carries the call that      *)
(* dispatched it (of) and the number of calls made when it was dispatched  *)
(* (latest).  steps lists the currentStep of every reasoning state the     *)
(* call has dispatched, calls counts its requests to the services, and     *)
(* ret keeps the last call that returned as it was at its return.          *)
(*                                                                         *)
(* responseMode, retrievalCount and the services are the ones the closure  *)
(* of sendMessage holds.  The store is the one loadPredefinedDocuments     *)
(* has filled; a search is taken with the settling of the embedding        *)
(* request before it, and the code that follows a Promise.all with the     *)
(* last promise that settles.                                              *)
(***************************************************************************)
MaxQueries == 1
MaxSubtopics == 2
MaxOverlap == 2

configurationError ==
  [message |-> "Please configure your OpenAI API key in Settings to use the chat."]

Error(message) == [message |-> message]

Call(content, responseMode) ==
  [pc |-> "called", content |-> content, responseMode |-> responseMode, path |-> "none",
   fellBack |-> FALSE, planned |-> "none", subtopics |-> <<>>, tasks |-> <<>>,
   retrieved |-> <<>>, synthesized |-> FALSE, result |-> "pending", steps |-> <<>>,
   calls |-> [embedding |-> 0, search |-> 0, completion |-> 0]]

InFlight(q) == queries[q].pc # "returned"

\* What is kept of a call once it has returned.
Returns(call, result) == [call EXCEPT !.pc = "returned", !.result = result]

Summary(call) ==
  [Call(<<>>, call.responseMode) EXCEPT !.pc = call.pc, !.result = call.result,
                                        !.path = call.path]

userMessage(q, n, content) ==
  [role |-> "user", content |-> trim(content), of |-> q, latest |-> n]

assistantMessage(q, n, responseMode) ==
  [role |-> "assistant", content |-> "response", of |-> q, latest |-> n,
   responseMode |-> responseMode]

initialReasoning(q, n, content) ==
  [of |-> q, latest |-> n, orchestrationMode |-> TRUE, originalQuery |-> content,
   currentStep |-> "planning", subtopics |-> <<>>, processingSubtopics |-> <<>>,
   completedSubtopics |-> <<>>, subtopicResults |-> <<>>]

planningReasoning(q, n, content, subtopics) ==
  [initialReasoning(q, n, content) EXCEPT
     !.subtopics = subtopics,
     !.subtopicResults = [i \in 1..Len(subtopics) |->
                            [subtopic |-> subtopics[i], chunks |-> <<>>, status |-> "pending"]]]

\* The state the retrieval of the subtopic at index dispatches when it
\* starts (index counts from 1).
retrievingReasoning(planning, index) ==
  [planning EXCEPT
     !.currentStep = "retrieving",
     !.processingSubtopics = SubSeq(planning.subtopics, index, Len(planning.subtopics)),
     !.completedSubtopics = SubSeq(planning.subtopics, 1, index - 1),
     !.subtopicResults = [i \in 1..Len(planning.subtopics) |->
                            IF i = index THEN [@[i] EXCEPT !.status = "processing"] ELSE @[i]]]

synthesisStep(responseMode) ==
  IF responseMode = "quick" THEN "synthesizing" ELSE "generating_report"

synthesisReasoning(planning, responseMode, subtopicResults) ==
  [planning EXCEPT
     !.currentStep = synthesisStep(responseMode),
     !.processingSubtopics = <<>>,
     !.completedSubtopics = planning.subtopics,
     !.subtopicResults = subtopicResults]

finalReasoning(synthesis) == [synthesis EXCEPT !.currentStep = "complete"]

\* searchResults.map(result => ({content, source, similarity}))
retrievedChunks(searchResults) ==
  [i \in 1..Len(searchResults) |->
     [content |-> searchResults[i].chunk.content,
      source |-> searchResults[i].chunk.metadata.source,
      similarity |-> searchResults[i].similarity]]

\* The reasoning generateQuickResponse and generateDetailedResponse return,
\* with the chunks handleSimpleRAGWorkflow puts in it.
updatedReasoning(q, n, searchResults) ==
  [of |-> q, latest |-> n, orchestrationMode |-> FALSE, currentStep |-> "undefined",
   retrievedChunks |->
     IF Len(searchResults) > 0 THEN retrievedChunks(searchResults)
     ELSE << [content |-> "No knowledge base context retrieved",
              source |-> "General AI Knowledge", similarity |-> 0] >>]

\* Math.ceil(retrievalCount / subtopics.length) + 1
subtopicLimit(retrievalCount, n) == ((retrievalCount + n - 1) \div n) + 1

credentialMissing_Never(s) == FALSE

\* !state.settings.apiKey
credentialMissing(s) == s.settings.apiKey = ""

\* The catch and the finally of sendMessage.
caught_Silent(s, message) == SET_LOADING(s, FALSE)

caught(s, message) == SET_LOADING(SET_ERROR(s, Error(message)), FALSE)

\* A finally that leaves the loading flag as it is.
finally_KeepsLoading(s) == s

\* The finally of sendMessage after a workflow that returned.
finally(s) == SET_LOADING(s, FALSE)

CallReturns(q, call, result) ==
  /\ queries' = [queries EXCEPT ![q] = Summary(Returns(call, result))]
  /\ ret' = [op |-> "sendMessage", q |-> q, call |-> Returns(call, result), pre |-> state]

Continues(q, call) ==
  /\ queries' = [queries EXCEPT ![q] = call]
  /\ UNCHANGED ret

\* sendMessage(content) up to its first await.
SendMessage(content, responseMode) ==
  LET q == Len(queries) + 1
      call == Call(content, responseMode)
      added == CLEAR_ERROR(SET_LOADING(ADD_MESSAGE(state, userMessage(q, q, content)), TRUE))
      began(c, result) ==
        /\ queries' = Append(queries, IF result = "pending" THEN c ELSE Summary(Returns(c, result)))
        /\ ret' = IF result = "pending" THEN ret
                  ELSE [op |-> "sendMessage", q |-> q, call |-> Returns(c, result), pre |-> state]
  IN  /\ IF trim(content) = <<>>
           THEN state' = state /\ began(call, "blank")
         ELSE IF credentialMissing(state)
           THEN state' = SET_ERROR(state, configurationError) /\ began(call, "noKey")
         ELSE IF route(content, chunks) = "compound"
           THEN /\ state' = SET_REASONING(added, initialReasoning(q, q, content))
                /\ began([call EXCEPT !.pc = "planning", !.path = "compound",
                                      !.steps = <<"planning">>, !.calls.completion = 1],
                         "pending")
         ELSE /\ state' = added
              /\ began([call EXCEPT !.pc = "embedding", !.path = "simple",
                                    !.calls.embedding = 1],
                       "pending")
      /\ UNCHANGED <<chunks, isInitialized, storage, now, ticks, lastSaved, load>>

subtopicResults(tasks) ==
  [i \in 1..Len(tasks) |->
     [subtopic |-> tasks[i].subtopic, chunks |-> tasks[i].chunks, status |-> "complete"]]

\* What follows await Promise.all(retrievalPromises), up to the await of
\* the synthesis request.
Synthesizing(q, call, s) ==
  LET n == Len(queries)
      planning == planningReasoning(q, n, call.content, call.subtopics)
      reasoning == synthesisReasoning(planning, call.responseMode, subtopicResults(call.tasks))
  IN  /\ state' = SET_REASONING(s, reasoning)
      /\ Continues(q, [call EXCEPT !.pc = "synthesizing",
                                   !.steps = Append(@, reasoning.currentStep),
                                   !.calls.completion = @ + 1])

\* The decomposition was parsed and taken, not replaced by the query itself.
Accepted(outcome) ==
  /\ outcome.kind = "content"
  /\ JSONparses(outcome.text)
  /\ ArrayIsArray(JSONparse(outcome.text))
  /\ Len(JSONparse(outcome.text).items) > 0

\* orchestrateQuery settles: the planning state with the subtopics, the
\* retrieving state, and the start of every subtopic's retrieval.
Planned(q, outcome) ==
  LET call == queries[q]
      n == Len(queries)
      subtopics == orchestrateQuery(call.content, outcome)
      planning == planningReasoning(q, n, call.content, subtopics)
      started == [planning EXCEPT !.currentStep = "retrieving",
                                  !.processingSubtopics = subtopics]
      last == IF Len(subtopics) = 0 THEN started
              ELSE retrievingReasoning(planning, Len(subtopics))
      next == [call EXCEPT
                 !.pc = "retrieving",
                 !.planned = IF Accepted(outcome) THEN "accepted" ELSE "replaced",
                 !.subtopics = subtopics,
                 !.tasks = [i \in 1..Len(subtopics) |->
                              [pc |-> "embedding", subtopic |-> subtopics[i],
                               chunks |-> <<>>, failed |-> FALSE]],
                 !.steps = @ \o <<"planning", "retrieving">> \o Rep("retrieving", Len(subtopics)),
                 !.calls.embedding = @ + Len(subtopics)]
  IN  /\ call.pc = "planning"
      /\ IF Len(subtopics) = 0
           THEN Synthesizing(q, next, SET_REASONING(state, last))
           ELSE state' = SET_REASONING(state, last) /\ Continues(q, next)
      /\ UNCHANGED <<chunks, isInitialized, storage, now, ticks, lastSaved, load>>

\* handleSimpleRAGWorkflow(content) up to its first await, as the fallback
\* of the compound path.
FallsBack(q, call) ==
  /\ state' = state
  /\ Continues(q, [call EXCEPT !.pc = "embedding", !.fellBack = TRUE,
                               !.calls.embedding = @ + 1])

\* The retrieval of subtopic k settles: the embedding request, then the
\* search.
retrieve(task, outcome, m, limit) ==
  IF outcome.kind = "throws" THEN [task EXCEPT !.pc = "done", !.failed = TRUE]
  ELSE LET searchResults == search(m, outcome.embedding, limit)
       IN  IF searchResults.threw THEN [task EXCEPT !.pc = "done", !.failed = TRUE]
           ELSE [task EXCEPT !.pc = "done", !.chunks = retrievedChunks(searchResults.value)]

SubtopicRetrieved_Rethrows(q, k, outcome) ==
  LET call == queries[q]
      limit == subtopicLimit(state.settings.retrievalCount, Len(call.subtopics))
      task == retrieve(call.tasks[k], outcome, chunks, limit)
      next == [call EXCEPT !.tasks[k] = task,
                           !.calls.search = IF outcome.kind = "throws" THEN @ ELSE @ + 1]
  IN  /\ call.pc = "retrieving"
      /\ call.tasks[k].pc = "embedding"
      /\ IF task.failed THEN FallsBack(q, next)
         ELSE IF \A i \in 1..Len(next.tasks) : next.tasks[i].pc = "done"
           THEN Synthesizing(q, next, state)
         ELSE state' = state /\ Continues(q, next)
      /\ UNCHANGED <<chunks, isInitialized, storage, now, ticks, lastSaved, load>>

SubtopicRetrieved(q, k, outcome) ==
  LET call == queries[q]
      limit == subtopicLimit(state.settings.retrievalCount, Len(call.subtopics))
      task == retrieve(call.tasks[k], outcome, chunks, limit)
      next == [call EXCEPT !.tasks[k] = task,
                           !.calls.search = IF outcome.kind = "throws" THEN @ ELSE @ + 1]
  IN  /\ call.pc = "retrieving"
      /\ call.tasks[k].pc = "embedding"
      /\ IF \A i \in 1..Len(next.tasks) : next.tasks[i].pc = "done"
           THEN Synthesizing(q, next, state)
           ELSE state' = state /\ Continues(q, next)
      /\ UNCHANGED <<chunks, isInitialized, storage, now, ticks, lastSaved, load>>

\* The synthesis request settles: the final state and the assistant
\* message, or the catch of handleOrchestrationWorkflow.
Synthesized_Surfaces(q, ok) ==
  LET call == queries[q]
      n == Len(queries)
      planning == planningReasoning(q, n, call.content, call.subtopics)
      synthesis == synthesisReasoning(planning, call.responseMode, subtopicResults(call.tasks))
  IN  /\ call.pc = "synthesizing"
      /\ IF ok
           THEN /\ state' = finally(ADD_MESSAGE(SET_REASONING(state, finalReasoning(synthesis)),
                                                assistantMessage(q, n, call.responseMode)))
                /\ CallReturns(q, [call EXCEPT !.synthesized = TRUE,
                                             !.steps = Append(@, "complete")],
                             "answered")
           ELSE /\ state' = caught(state, "Failed to synthesize response")
                /\ CallReturns(q, call, "error")
      /\ UNCHANGED <<chunks, isInitialized, storage, now, ticks, lastSaved, load>>

Synthesized(q, ok) ==
  LET call == queries[q]
      n == Len(queries)
      planning == planningReasoning(q, n, call.content, call.subtopics)
      synthesis == synthesisReasoning(planning, call.responseMode, subtopicResults(call.tasks))
  IN  /\ call.pc = "synthesizing"
      /\ IF ok
           THEN /\ state' = finally(ADD_MESSAGE(SET_REASONING(state, finalReasoning(synthesis)),
                                                assistantMessage(q, n, call.responseMode)))
                /\ CallReturns(q, [call EXCEPT !.synthesized = TRUE,
                                             !.steps = Append(@, "complete")],
                             "answered")
           ELSE FallsBack(q, call)
      /\ UNCHANGED <<chunks, isInitialized, storage, now, ticks, lastSaved, load>>

\* The embedding request of handleSimpleRAGWorkflow settles; the search
\* follows, then the request for the response.
QueryEmbedded(q, outcome) ==
  LET call == queries[q]
      searchResults == search(chunks, outcome.embedding, state.settings.retrievalCount)
  IN  /\ call.pc = "embedding"
      /\ IF outcome.kind = "throws"
           THEN /\ state' = caught(state, "Failed to generate embedding")
                /\ CallReturns(q, call, "error")
         ELSE IF searchResults.threw
           THEN /\ state' = caught(state, "Vectors must have the same length")
                /\ CallReturns(q, [call EXCEPT !.calls.search = @ + 1], "error")
         ELSE /\ state' = state
              /\ Continues(q, [call EXCEPT !.pc = "responding",
                                           !.retrieved = searchResults.value,
                                           !.calls.search = @ + 1,
                                           !.calls.completion = @ + 1])
      /\ UNCHANGED <<chunks, isInitialized, storage, now, ticks, lastSaved, load>>

\* The request for the response settles.
Responded(q, ok) ==
  LET call == queries[q]
      n == Len(queries)
  IN  /\ call.pc = "responding"
      /\ IF ok
           THEN /\ state' = finally(ADD_MESSAGE(SET_REASONING(state,
                                                              updatedReasoning(q, n, call.retrieved)),
                                                assistantMessage(q, n, call.responseMode)))
                /\ CallReturns(q, call, "answered")
           ELSE /\ state' = caught(state, "Failed to generate response")
                /\ CallReturns(q, call, "error")
      /\ UNCHANGED <<chunks, isInitialized, storage, now, ticks, lastSaved, load>>

\* The embedding model gives one vector for one text.
vectorOf(text) ==
  IF Len(text) % 3 = 0 THEN <<1, 1>> ELSE IF Len(text) % 3 = 1 THEN <<0, 1>> ELSE <<1, 0>>

\* The answers of the embedding request for a text: an exception, the
\* vector of the text, or a vector of another dimension than the stored
\* embeddings.
QueryEmbeddings(text) ==
  { [kind |-> "throws"], [kind |-> "vector", embedding |-> vectorOf(text)],
    [kind |-> "vector", embedding |-> <<1>>] }

QueryContents == {queryBlank, queryShort, queryLongSignal}

Decompositions == FailedDecompositions \cup {Decomposed(n) : n \in 1..MaxSubtopics}

InitQuery ==
  /\ chunks = FilledStore(11)
  /\ isInitialized = TRUE
  /\ storage = NoItem
  /\ now = 0
  /\ ticks = 0
  /\ lastSaved = NotSaved
  /\ ret = [op |-> "none"]
  /\ load = NotLoading
  /\ \E apiKey \in {"", "sk"} : state = [initialState EXCEPT !.settings.apiKey = apiKey]
  /\ queries = <<>>

\* SpecQuery: the calls follow one another, each made when the one before
\* has returned.
NextQuery ==
  \/ /\ Len(queries) < MaxQueries
     /\ \A q \in 1..Len(queries) : ~InFlight(q)
     /\ \E content \in QueryContents, responseMode \in {"quick", "detailed"} :
          SendMessage(content, responseMode)
  \/ \E q \in 1..Len(queries), outcome \in Decompositions : Planned(q, outcome)
  \/ \E q \in 1..Len(queries) :
       \E k \in 1..Len(queries[q].tasks) :
          \E outcome \in QueryEmbeddings(queries[q].tasks[k].subtopic) :
             SubtopicRetrieved(q, k, outcome)
  \/ \E q \in 1..Len(queries), ok \in BOOLEAN : Synthesized(q, ok)
  \/ \E q \in 1..Len(queries) :
       \E outcome \in QueryEmbeddings(queries[q].content) : QueryEmbedded(q, outcome)
  \/ \E q \in 1..Len(queries), ok \in BOOLEAN : Responded(q, ok)

SpecQuery == InitQuery /\ [][NextQuery]_vars

\* SpecOverlap: a call is made while earlier calls are at an await.
InitOverlap ==
  /\ InitQuery
  /\ state.settings.apiKey = "sk"

NextOverlap ==
  \/ /\ Len(queries) < MaxOverlap
     /\ \E content \in {queryShort, queryLongSignal} : SendMessage(content, "quick")
  \/ \E q \in 1..Len(queries), outcome \in Decompositions : Planned(q, outcome)
  \/ \E q \in 1..Len(queries) :
       \E k \in 1..Len(queries[q].tasks) :
          \E outcome \in QueryEmbeddings(queries[q].tasks[k].subtopic) :
             SubtopicRetrieved(q, k, outcome)
  \/ \E q \in 1..Len(queries), ok \in BOOLEAN : Synthesized(q, ok)
  \/ \E q \in 1..Len(queries) :
       \E outcome \in QueryEmbeddings(queries[q].content) : QueryEmbedded(q, outcome)
  \/ \E q \in 1..Len(queries), ok \in BOOLEAN : Responded(q, ok)

SpecOverlap == InitOverlap /\ [][NextOverlap]_vars

(***************************************************************************)
(* SpecChunk: chunkText applied to texts of up to MaxSections sections     *)
(* taken from a palette: sections around the minimum length, a section of  *)
(* two sentences, oversized sections whose sentences fill the target size  *)
(* exactly, leave a short rest or are one sentence longer than the target, *)
(* and a section with a bare carriage return.                              *)
(***************************************************************************)
MaxSections == 2

sectionBelowMinimum == Rep("a", 49)

sectionAtMinimum == Rep("b", 50)

sectionAboveMinimum == Rep("c", 51)

sectionTwoSentences == Rep("d", 30) \o <<".", " ">> \o Rep("e", 30) \o <<"!">>

\* Two sentences that fill the target size exactly when joined, then a third.
sectionExactFit ==
  Rep("f", 398) \o <<".", " ">> \o Rep("g", 400) \o <<"?", " ">> \o Rep("h", 60) \o <<".">>

sectionShortRest == Rep("i", 798) \o <<".", ".", ".", " ">> \o <<"t", "a", "i", "l">> \o <<".">>

sectionLongSentence == Rep("j", 900)

sectionCarriageReturn == Rep("k", 30) \o <<"\r">> \o Rep("l", 30)

SectionPalette ==
  << sectionBelowMinimum, sectionAtMinimum, sectionAboveMinimum, sectionTwoSentences,
     sectionExactFit, sectionShortRest, sectionLongSentence, sectionCarriageReturn >>

Dividers == { <<"\n", "\n">>, <<"\r", "\n", " ", "\r", "\n">> }

RECURSIVE JoinSections(_, _)
JoinSections(picks, divider) ==
  IF Len(picks) = 1 THEN SectionPalette[picks[1]]
  ELSE SectionPalette[picks[1]] \o divider \o JoinSections(Tail(picks), divider)

ChunkTexts ==
  { JoinSections(picks, divider) :
      picks \in UNION { [1..n -> 1..Len(SectionPalette)] : n \in 1..MaxSections },
      divider \in Dividers }

InitChunk ==
  /\ chunks = EmptyMap
  /\ isInitialized = FALSE
  /\ storage = NoItem
  /\ now = 0
  /\ ticks = 0
  /\ lastSaved = NotSaved
  /\ \E text \in ChunkTexts : ret = [op |-> "text", text |-> text]
  /\ load = NotLoading
  /\ state = initialState
  /\ queries = <<>>

ChunkText ==
  /\ ret.op = "text"
  /\ ret' = [op |-> "chunkText", text |-> ret.text, out |-> chunkText(ret.text)]
  /\ UNCHANGED <<chunks, isInitialized, storage, now, ticks, lastSaved, load, state, queries>>

NextChunk == ChunkText

SpecChunk == InitChunk /\ [][NextChunk]_vars

(***************************************************************************)
(* Properties of checkIfUpdateNeeded (Spec).                               *)
(***************************************************************************)
IsSnapshot(item) == item.kind = "json"

\* Something is stored under STORAGE_KEY and can be read.
HasItem(item) == item.kind \in {"text", "json"}

Age(r) == r.pre.now - r.pre.storage.data.timestamp

\* The snapshot a call found under STORAGE_KEY passes the validity test.
ValidSnapshot(r) ==
  /\ IsSnapshot(r.pre.storage)
  /\ r.pre.storage.data.version = VERSION
  /\ Age(r) <= maxAge

Checked == ret.op = "checkIfUpdateNeeded"

\* C1 as stated: whenever the persisted fingerprint differs from the current
\* one, checkIfUpdateNeeded returns needsUpdate = true, whatever the size of
\* the store and the age of the snapshot.
C1_FingerprintDiffers ==
  (Checked /\ IsSnapshot(ret.pre.storage)
           /\ ret.pre.storage.data.manifestHash # currentHashValue)
    => ret.needsUpdate

\* C1 amended: whenever the persisted fingerprint differs from the current
\* one, checkIfUpdateNeeded returns needsUpdate = true, unless the store is
\* non-empty and a valid snapshot was saved less than one hour ago.
C1_FingerprintDiffersNotRecent ==
  (Checked /\ IsSnapshot(ret.pre.storage)
           /\ ret.pre.storage.data.manifestHash # currentHashValue
           /\ ~(MapSize(ret.pre.chunks) > 0 /\ ValidSnapshot(ret) /\ Age(ret) < recentWindow))
    => ret.needsUpdate

C1_Witness ==
  /\ Checked
  /\ ValidSnapshot(ret)
  /\ ret.pre.storage.data.manifestHash # currentHashValue
  /\ MapSize(ret.pre.chunks) > 0
  /\ Age(ret) >= recentWindow
  /\ ret.needsUpdate

\* C2 as stated: whenever the snapshot is older than the one-hour window,
\* checkIfUpdateNeeded returns needsUpdate = true, even with an equal
\* fingerprint and a non-empty store.
C2_OlderThanHour ==
  (Checked /\ IsSnapshot(ret.pre.storage) /\ Age(ret) > recentWindow) => ret.needsUpdate

\* C2 amended: whenever the snapshot is older than the seven-day validity
\* window, checkIfUpdateNeeded returns needsUpdate = true, even with an equal
\* fingerprint and a non-empty store.
C2_OlderThanMaxAge ==
  (Checked /\ IsSnapshot(ret.pre.storage) /\ Age(ret) > maxAge) => ret.needsUpdate

C2_Witness ==
  /\ Checked
  /\ IsSnapshot(ret.pre.storage)
  /\ Age(ret) > maxAge
  /\ ret.pre.storage.data.version = VERSION
  /\ ret.pre.storage.data.manifestHash = currentHashValue
  /\ MapSize(ret.pre.chunks) > 0
  /\ ret.needsUpdate

\* C3: checkIfUpdateNeeded returns needsUpdate = true whenever the store
\* holds no chunk or no valid snapshot is persisted.
C3_EmptyOrNoSnapshot ==
  (Checked /\ (MapSize(ret.pre.chunks) = 0 \/ ~ValidSnapshot(ret))) => ret.needsUpdate

C3_Witness ==
  /\ Checked
  /\ MapSize(ret.pre.chunks) = 0
  /\ ValidSnapshot(ret)
  /\ ret.pre.storage.data.manifestHash = currentHashValue
  /\ Len(ret.pre.storage.data.chunks) > 0
  /\ ret.needsUpdate

(***************************************************************************)
(* Properties of initialize and of the persisted snapshot (Spec).          *)
(***************************************************************************)
Initialized == ret.op = "initialize"

FreshInstance(r) == ~r.pre.isInitialized /\ r.pre.chunks = EmptyMap

\* C4: initialize() on a store that is already initialized leaves the chunk
\* set as it was.
C4_InitializeIdempotent ==
  (Initialized /\ ret.pre.isInitialized) => chunks = ret.pre.chunks

\* C5: initialize() of a fresh instance, on a snapshot that finalizeBatch
\* wrote and that has the running version and is no more than seven days
\* old, restores exactly the chunk set finalizeBatch was called on.
C5_RoundTrip ==
  (Initialized /\ FreshInstance(ret) /\ ValidSnapshot(ret))
    => (lastSaved.saved /\ chunks = lastSaved.chunks)

C5_Witness ==
  /\ Initialized
  /\ FreshInstance(ret)
  /\ ValidSnapshot(ret)
  /\ Age(ret) = maxAge
  /\ lastSaved.saved
  /\ MapSize(lastSaved.chunks) = 2
  /\ chunks = lastSaved.chunks

\* C6: initialize() restores the persisted chunks only if the snapshot has
\* the running version and is no more than seven days old; an expired,
\* wrong-version or unparsable item restores nothing and is erased.
C6_RestoreOnlyValid ==
  Initialized =>
    /\ ValidSnapshot(ret) =>
         /\ storage = ret.pre.storage
         /\ \A i \in 1..Len(ret.pre.storage.data.chunks) :
              \E j \in 1..Len(chunks) : chunks[j].value = ret.pre.storage.data.chunks[i]
    /\ (~ValidSnapshot(ret) /\ HasItem(ret.pre.storage)) =>
         /\ chunks = ret.pre.chunks
         /\ storage = NoItem
    /\ (~ValidSnapshot(ret) /\ FreshInstance(ret)) => chunks = EmptyMap

C6_Witness ==
  /\ Initialized
  /\ FreshInstance(ret)
  /\ IsSnapshot(ret.pre.storage)
  /\ ret.pre.storage.data.version = VERSION
  /\ Len(ret.pre.storage.data.chunks) > 0
  /\ Age(ret) > maxAge
  /\ chunks = EmptyMap
  /\ storage = NoItem

(***************************************************************************)
(* Properties of search (SpecSearch) and cosineSimilarity (SpecCos).       *)
(***************************************************************************)
Searched == ret.op = "search"

ReturnedIds(results) == {results[i].chunk.id : i \in 1..Len(results)}

\* C7: search returns at most limit results, in non-increasing order of
\* similarity, each at or above the threshold and above the noise floor, and
\* leaves out no chunk that meets the threshold while returning a chunk that
\* scores lower.
C7_SearchResults ==
  (Searched /\ ~ret.out.threw) =>
    LET results == ret.out.value
    IN  /\ Len(results) <= ret.limit
        /\ \A i \in 1..Len(results) :
             /\ GreaterEq(results[i].similarity, similarityThreshold)
             /\ Greater(results[i].similarity, noiseFloor)
             /\ MapHas(chunks, results[i].chunk.id)
             /\ cosineSimilarity(ret.queryEmbedding, results[i].chunk.embedding)
                  = Returned(results[i].similarity)
        /\ \A i \in 1..Len(results), j \in 1..Len(results) :
             i < j => ~Less(results[i].similarity, results[j].similarity)
        /\ \A k \in 1..Len(chunks) :
             LET sim == cosineSimilarity(ret.queryEmbedding, chunks[k].value.embedding).value
             IN  (chunks[k].key \notin ReturnedIds(results)
                    /\ GreaterEq(sim, similarityThreshold))
                   => /\ Len(results) = ret.limit
                      /\ \A i \in 1..Len(results) : ~Less(results[i].similarity, sim)

C7_Witness ==
  /\ Searched
  /\ ~ret.out.threw
  /\ ret.limit = 1
  /\ Len(ret.out.value) = 1
  /\ MapSize(chunks) = 2
  /\ chunks[1].key # ret.out.value[1].chunk.id
  /\ GreaterEq(cosineSimilarity(ret.queryEmbedding, chunks[1].value.embedding).value,
               similarityThreshold)

\* C8: on a store that holds at least one chunk, search with a query whose
\* length differs from the length of the stored embeddings fails, returns no
\* result and leaves the chunk set unchanged.
C8_DimensionMismatch ==
  (Searched /\ MapSize(ret.pre.chunks) > 0
            /\ \A k \in 1..Len(ret.pre.chunks) :
                 Len(ret.pre.chunks[k].value.embedding) # Len(ret.queryEmbedding))
    => (ret.out = Threw /\ chunks = ret.pre.chunks)

C8_Witness ==
  /\ Searched
  /\ MapSize(ret.pre.chunks) = 2
  /\ Len(ret.queryEmbedding) = 3
  /\ ret.out = Threw
  /\ chunks = ret.pre.chunks

SquaredNorm(v) == sumProducts(v, v, 1)

\* C9: cosineSimilarity of two vectors of equal length returns 0 when either
\* has zero norm.
C9_ZeroNormIsZero ==
  (ret.op = "cosineSimilarity" /\ Len(ret.a) = Len(ret.b)
     /\ (SquaredNorm(ret.a) = 0 \/ SquaredNorm(ret.b) = 0))
    => (~ret.out.threw /\ IsZero(ret.out.value))

(***************************************************************************)
(* Properties of a rebuild (SpecLoad).                                     *)
(***************************************************************************)
Rebuilt == load.pc = "done" /\ load.rebuilt

OkTasks == SelectSeq(load.tasks, LAMBDA task : task.pc = "ok")

\* The store holds chunk number i of the task's document, under its source.
InStore(task, i) ==
  \E j \in 1..Len(chunks) :
    /\ chunks[j].value.content = task.chunks[i]
    /\ chunks[j].value.metadata.source = task.name
    /\ chunks[j].value.metadata.chunkIndex = i - 1

\* C10: when the processing of a document fails at any step, the load still
\* runs every other document to its end, returns the metadata of exactly the
\* documents that succeeded, in declared order, and the store holds every
\* chunk of every document that succeeded.
C10_FailedDocumentContained ==
  Rebuilt =>
    /\ ~load.result.threw
    /\ Len(load.tasks) = Len(load.documentFiles)
    /\ \A k \in 1..Len(load.tasks) :
         /\ load.tasks[k].pc \in {"ok", "failed"}
         /\ load.tasks[k].pc = "failed" <=> load.tasks[k].error # "none"
    /\ Len(load.result.value) = Len(OkTasks)
    /\ \A j \in 1..Len(OkTasks) :
         /\ load.result.value[j].name = OkTasks[j].name
         /\ load.result.value[j].chunks = Len(OkTasks[j].chunks)
         /\ \A i \in 1..Len(OkTasks[j].chunks) : InStore(OkTasks[j], i)

C10_Witness ==
  /\ Rebuilt
  /\ Len(load.tasks) = 2
  /\ load.tasks[1].pc = "ok"
  /\ Len(load.tasks[1].chunks) = 2
  /\ load.tasks[2].pc = "failed"
  /\ load.tasks[2].error = "embed"
  /\ Len(load.result.value) = 1
  /\ load.result.value[1].name = "a.txt"
  /\ InStore(load.tasks[1], 1)
  /\ InStore(load.tasks[1], 2)

(***************************************************************************)
(* Properties of the up-to-date path of a load (SpecLoad).                 *)
(***************************************************************************)
UpToDate == load.pc = "done" /\ ~load.needsUpdate /\ ~load.result.threw

\* getChunkCount restricted to one document: the chunks of the store whose
\* source is the document's name.
ChunksOfSource(m, source) ==
  Len(SelectSeq(MapValues(m), LAMBDA c : c.metadata.source = source))

\* C11: in the up-to-date path, the metadata load returns carries for each
\* document a chunk count equal to the number of chunks of that document
\* held in the store.
C11_CachedChunkCounts ==
  UpToDate =>
    \A j \in 1..Len(load.result.value) :
      load.result.value[j].chunks = ChunksOfSource(chunks, load.result.value[j].name)

\* C12: when checkIfUpdateNeeded reports that no update is needed, the load
\* makes no embedding call, no clear call and no finalizeBatch call, and
\* the chunk set and the persisted snapshot are as the load found them.
C12_UpToDateTouchesNothing ==
  UpToDate =>
    /\ load.embeddingCalls = 0
    /\ load.clears = 0
    /\ load.finalized = <<>>
    /\ load.tasks = <<>>
    /\ chunks = load.entry.chunks
    /\ storage = load.entry.storage

C12_Witness ==
  /\ UpToDate
  /\ MapSize(chunks) > 0
  /\ IsSnapshot(storage)
  /\ Len(load.result.value) = 2
  /\ chunks = load.entry.chunks
  /\ storage = load.entry.storage

\* C13: when the document list of a load differs, in its names or their
\* order, from the list the persisted snapshot was built from, the check of
\* that load finds an update needed.
C13_DeclaredListDiffers ==
  (load.pc = "checked" /\ lastSaved.saved /\ lastSaved.files # load.documentFiles)
    => load.needsUpdate

(***************************************************************************)
(* Properties of the end of a rebuild (SpecLoad).                          *)
(***************************************************************************)
\* C14: a rebuild calls finalizeBatch exactly once, with the fingerprint
\* that checkIfUpdateNeeded returned to it, when every per-document task
\* has succeeded or failed; no chunk is added to the store after the call.
C14_FinalizeOnceAfterTasks ==
  /\ Rebuilt =>
       /\ Len(load.finalized) = 1
       /\ load.currentHash = Defined(load.finalized[1].manifestHash)
       /\ load.finalized[1].manifestHash = currentHashValue
  /\ load.finalized # <<>> =>
       /\ load.rebuilt
       /\ Len(load.tasks) = Len(load.documentFiles)
       /\ \A k \in 1..Len(load.tasks) : load.tasks[k].pc \in {"ok", "failed"}
       /\ chunks = load.finalized[1].chunks

C14_Witness ==
  /\ Rebuilt
  /\ Len(load.finalized) = 1
  /\ Len(load.tasks) = 2
  /\ load.tasks[1].pc = "failed"
  /\ load.tasks[2].pc = "ok"
  /\ load.embeddingCalls = 3
  /\ MapSize(chunks) = 2
  /\ chunks = load.finalized[1].chunks

(***************************************************************************)
(* Properties of what checkIfUpdateNeeded returns (Spec).                  *)
(***************************************************************************)
\* C15: every call of checkIfUpdateNeeded returns the current fingerprint
\* with the boolean, whether needsUpdate is true or false.
C15_ReturnsFingerprint ==
  Checked => ret.currentHash = Defined(currentHashValue)

\* The snapshot a call found was written by finalizeBatch with the current
\* fingerprint from the chunk set the store holds at the call.
Persisted(r) ==
  /\ IsSnapshot(r.pre.storage)
  /\ r.pre.storage.data.version = VERSION
  /\ r.pre.storage.data.manifestHash = currentHashValue
  /\ r.pre.storage.data.chunks = MapValues(r.pre.chunks)

\* This call and, when the call before it was a checkIfUpdateNeeded too,
\* that call returned needsUpdate = false.
BothFalse(r) == ~r.needsUpdate /\ (r.previous.defined => ~r.previous.value)

\* C16 as stated: once finalizeBatch has persisted the current fingerprint,
\* successive checkIfUpdateNeeded calls with no mutation of the store or the
\* snapshot between them all return needsUpdate = false.
C16_Idempotent ==
  (Checked /\ Persisted(ret)) => BothFalse(ret)

\* C16 amended: the same, for a store that holds at least one chunk and a
\* snapshot that is no more than seven days old.
C16_IdempotentNonEmptyValid ==
  (Checked /\ Persisted(ret) /\ MapSize(ret.pre.chunks) > 0 /\ Age(ret) <= maxAge)
    => BothFalse(ret)

C16_Witness ==
  /\ Checked
  /\ Persisted(ret)
  /\ MapSize(ret.pre.chunks) = 2
  /\ Age(ret) >= recentWindow
  /\ ret.previous = Defined(FALSE)
  /\ ~ret.needsUpdate
  /\ storage = ret.pre.storage

(***************************************************************************)
(* Properties of the end of initializeKnowledgeBase (SpecLoad).            *)
(***************************************************************************)
\* C17: ingestion ends with the error status only when the load gave no
\* document; whenever at least one document of a rebuild succeeded, it ends
\* with the connected status and exactly the documents that succeeded, in
\* declared order, even if others failed.
C17_FailedOnlyWithoutDocuments ==
  load.pc = "done" =>
    /\ load.status \in {"connected", "error"}
    /\ load.status = "error" => (load.result.threw \/ load.result.value = <<>>)
    /\ (load.status = "error" /\ load.rebuilt) => OkTasks = <<>>
    /\ (load.rebuilt /\ OkTasks # <<>>) =>
         /\ load.status = "connected"
         /\ Len(load.documents) = Len(OkTasks)
         /\ \A j \in 1..Len(OkTasks) : load.documents[j] = OkTasks[j].document

C17_Witness ==
  /\ Rebuilt
  /\ Len(load.tasks) = 2
  /\ load.tasks[1].pc = "failed"
  /\ load.tasks[1].error = "fetch"
  /\ load.tasks[2].pc = "ok"
  /\ load.status = "connected"
  /\ Len(load.documents) = 1
  /\ load.documents[1].name = load.tasks[2].name

(***************************************************************************)
(* Properties of persistence failures (Spec).                              *)
(***************************************************************************)
\* C18: when the write of the snapshot fails, finalizeBatch does not throw
\* and leaves the chunk set as it was before the call.
C18_FinalizeSwallowsWriteFailure ==
  (ret.op = "finalizeBatch" /\ ~ret.writes) =>
    /\ ~ret.threw
    /\ chunks = ret.pre.chunks
    /\ storage = ret.pre.storage

C18_Witness ==
  /\ ret.op = "finalizeBatch"
  /\ ~ret.writes
  /\ ~ret.threw
  /\ MapSize(ret.pre.chunks) = 2
  /\ chunks = ret.pre.chunks
  /\ IsSnapshot(storage)
  /\ storage.data.chunks # MapValues(chunks)

\* C19: no vector-store operation that reads, writes or erases the snapshot
\* throws when localStorage fails.
C19_PersistenceFailureSwallowed ==
  ret.op \in {"initialize", "checkIfUpdateNeeded", "clear", "finalizeBatch", "addChunk", "search"}
    => (ret.pre.storage = Denied => ~ret.threw)

(***************************************************************************)
(* Properties of removeChunksBySource (SpecSearch).                        *)
(***************************************************************************)
Removed == ret.op = "removeChunksBySource"

\* C20: removeChunksBySource(s) leaves no chunk with source s, keeps every
\* chunk with another source as it was and in the same order, and lowers
\* the chunk count by the number of chunks that had source s.
C20_RemovesExactlySource ==
  Removed =>
    /\ \A j \in 1..Len(chunks) : chunks[j].value.metadata.source # ret.source
    /\ chunks = SelectSeq(ret.pre.chunks,
                          LAMBDA entry : entry.value.metadata.source # ret.source)
    /\ MapSize(chunks) = MapSize(ret.pre.chunks) - ChunksOfSource(ret.pre.chunks, ret.source)
    /\ ~ret.threw
    /\ storage = ret.pre.storage

C20_Witness ==
  /\ Removed
  /\ ret.source = "doc1"
  /\ MapSize(ret.pre.chunks) = 2
  /\ ChunksOfSource(ret.pre.chunks, "doc1") = 1
  /\ MapSize(chunks) = 1
  /\ chunks[1] = ret.pre.chunks[1]
  /\ chunks[1].value.metadata.source = "doc2"

(***************************************************************************)
(* Properties of addChunk (SpecSearch).                                    *)
(***************************************************************************)
Added == ret.op = "addChunk"

EntriesWithId(m, id) == {i \in 1..Len(m) : m[i].key = id}

UniqueIds(m) == \A i, j \in 1..Len(m) : m[i].key = m[j].key => i = j

\* What addChunk(c) is said to do to the store it found: one chunk with the
\* id of c, equal to c; every other chunk as it was; one more chunk exactly
\* when the id was new.
Upserted(before, after, c) ==
  /\ Cardinality(EntriesWithId(after, c.id)) = 1
  /\ \A i \in EntriesWithId(after, c.id) : after[i].value = c
  /\ SelectSeq(after, LAMBDA e : e.key # c.id) = SelectSeq(before, LAMBDA e : e.key # c.id)
  /\ (MapSize(after) = MapSize(before) + 1) = ~MapHas(before, c.id)
  /\ MapSize(after) \in {MapSize(before), MapSize(before) + 1}

\* C21: after addChunk(c) the store holds exactly one chunk with the id of c,
\* equal to c, every chunk with another id is unchanged, the chunk count
\* grows by one iff the id was not present before, and ids are unique in
\* every reachable state.
C21_AddChunkUpserts ==
  /\ UniqueIds(chunks)
  /\ Added => Upserted(ret.pre.chunks, chunks, ret.chunk)

\* C21 as it holds: the same, for addChunk on a store that has already been
\* initialized (on a new instance addChunk first restores the snapshot, and
\* the restored chunks are added to the count as well).
C21_AddChunkUpsertsInitialized ==
  /\ UniqueIds(chunks)
  /\ (Added /\ ret.pre.isInitialized) => (~ret.threw /\ Upserted(ret.pre.chunks, chunks, ret.chunk))

\* An overwrite: the id was present with another chunk, the count stays.
C21_Witness ==
  /\ Added
  /\ ret.pre.isInitialized
  /\ MapSize(ret.pre.chunks) = 2
  /\ MapHas(ret.pre.chunks, ret.chunk.id)
  /\ ret.pre.chunks[1].key = ret.chunk.id
  /\ ret.pre.chunks[1].value # ret.chunk
  /\ chunks[1].value = ret.chunk
  /\ MapSize(chunks) = 2

(***************************************************************************)
(* Properties of the routing test and of orchestrateQuery (SpecPlan).      *)
(***************************************************************************)
\* The words of a text: its maximal runs of characters that are not white
\* space.
CountWords(str) ==
  Cardinality({i \in 1..Len(str) : ~IsSpace(str[i]) /\ (i = 1 \/ IsSpace(str[i - 1]))})

ContainsSignalWord(str) == \E w \in 1..Len(signalWords) : includes(str, signalWords[w])

\* C22: a query takes the compound path if and only if it is longer than 50
\* characters, contains a signal word or has more than 8 words, and the
\* store holds more than 10 chunks; every other query takes the simple
\* path.
C22_CompoundIff ==
  ret.op = "route" =>
    ((ret.out = "compound") <=>
       /\ Len(ret.content) > 50
       /\ ContainsSignalWord(ret.content) \/ CountWords(ret.content) > 8
       /\ getChunkCount(chunks) > 10)

\* C25: an accepted decomposition hands between 3 and 7 subtopics to
\* RETRIEVING.
C25_ThreeToSeven ==
  (ret.op = "orchestrateQuery" /\ Accepted(ret.outcome)) => Len(ret.out) \in 3..7

(***************************************************************************)
(* Properties of sendMessage (SpecQuery, SpecOverlap).                     *)
(***************************************************************************)
\* The last call that returned, with no call made since.
JustReturned == ret.op = "sendMessage" /\ ret.q = Len(queries)

AssistantMessagesOf(q) ==
  {i \in 1..Len(state.messages) :
     state.messages[i].role = "assistant" /\ state.messages[i].of = q}

LastStep(call) == IF call.steps = <<>> THEN "none" ELSE call.steps[Len(call.steps)]

\* C23: a compound query whose synthesis fails runs through the simple path
\* and surfaces no error of its own; a compound query ends in an error only
\* when the simple path has failed as well.
C23_FallbackInsteadOfError ==
  /\ \A q \in 1..Len(queries) :
       (InFlight(q) /\ queries[q].fellBack) =>
          /\ queries[q].pc \in {"embedding", "responding"}
          /\ state.error = Null
          /\ AssistantMessagesOf(q) = {}
  /\ (JustReturned /\ ret.call.path = "compound") =>
       /\ ret.call.synthesized \/ ret.call.fellBack
       /\ ret.call.result = "error" => ret.call.fellBack
       /\ ret.call.result = "answered" => (state.error = Null /\ Cardinality(AssistantMessagesOf(ret.q)) = 1)
       /\ (ret.call.fellBack /\ ret.call.result = "answered") => ~state.reasoning.orchestrationMode

C23_Witness ==
  /\ JustReturned
  /\ ret.call.path = "compound"
  /\ ret.call.fellBack
  /\ ret.call.result = "answered"
  /\ LastStep(ret.call) = "synthesizing"
  /\ state.error = Null

\* C24: when the decomposition fails or is not a non-empty JSON array, the
\* subtopic list is the original query alone, and a synthesis that succeeds
\* then ends the call with the answer, COMPLETE published, no error and no
\* fallback.
C24_FallsBackToOriginalQuery ==
  /\ \A q \in 1..Len(queries) :
       queries[q].planned = "replaced" =>
          /\ queries[q].subtopics = <<queries[q].content>>
          /\ Len(queries[q].tasks) = 1
  /\ (JustReturned /\ ret.call.planned = "replaced") =>
       /\ ret.call.subtopics = <<ret.call.content>>
       /\ (ret.call.synthesized /\ ~ret.call.fellBack) =>
            /\ ret.call.result = "answered"
            /\ LastStep(ret.call) = "complete"
            /\ state.reasoning.currentStep = "complete"
            /\ state.reasoning.subtopics = <<ret.call.content>>
            /\ state.error = Null
       /\ ret.call.synthesized => ~ret.call.fellBack

C24_Witness ==
  /\ JustReturned
  /\ ret.call.planned = "replaced"
  /\ ret.call.synthesized
  /\ ~ret.call.fellBack
  /\ ret.call.result = "answered"
  /\ state.reasoning.currentStep = "complete"
  /\ Len(state.reasoning.subtopicResults) = 1

\* C26: a subtopic whose embedding request or search fails gets an empty
\* chunk list, every other subtopic keeps the result of its own search, and
\* the query goes on to the synthesis with one entry for each subtopic, in
\* the order of the subtopics; a failed retrieval never starts the fallback.
OwnResult(call, i) ==
  retrievedChunks(search(chunks, vectorOf(call.subtopics[i]),
                         subtopicLimit(state.settings.retrievalCount,
                                       Len(call.subtopics))).value)

C26_FailedSubtopicContained ==
  \A q \in 1..Len(queries) :
     LET call == queries[q]
     IN  /\ call.fellBack => LastStep(call) \in {"synthesizing", "generating_report"}
         /\ call.pc = "retrieving" =>
              \A i \in 1..Len(call.tasks) :
                 call.tasks[i].pc = "done" =>
                    call.tasks[i].chunks = IF call.tasks[i].failed THEN <<>> ELSE OwnResult(call, i)
         /\ (call.pc = "synthesizing" /\ state.reasoning.of = q) =>
              /\ state.reasoning.currentStep \in {"synthesizing", "generating_report"}
              /\ Len(state.reasoning.subtopicResults) = Len(call.subtopics)
              /\ \A i \in 1..Len(call.subtopics) :
                    /\ state.reasoning.subtopicResults[i].subtopic = call.subtopics[i]
                    /\ state.reasoning.subtopicResults[i].status = "complete"
                    /\ state.reasoning.subtopicResults[i].chunks =
                         IF call.tasks[i].failed THEN <<>> ELSE OwnResult(call, i)

\* The first of two subtopics failed, the second has its chunks.
C26_Witness ==
  \E q \in 1..Len(queries) :
     /\ queries[q].pc = "synthesizing"
     /\ Len(queries[q].subtopics) = 2
     /\ queries[q].tasks[1].failed
     /\ ~queries[q].tasks[2].failed
     /\ state.reasoning.subtopicResults[1].chunks = <<>>
     /\ Len(state.reasoning.subtopicResults[2].chunks) > 0
     /\ state.reasoning.subtopicResults[2].subtopic = Subtopic(2)

\* The place of a published step in PLANNING, RETRIEVING, SYNTHESIZING,
\* COMPLETE; 0 for a step that is none of the four.
StepIndex(step) ==
  IF step = "planning" THEN 1 ELSE IF step = "retrieving" THEN 2
  ELSE IF step = "synthesizing" THEN 3 ELSE IF step = "complete" THEN 4 ELSE 0

Forward(steps) ==
  /\ \A i \in 1..Len(steps) : StepIndex(steps[i]) > 0
  /\ steps # <<>> => steps[1] = "planning"
  /\ \A i \in 1..(Len(steps) - 1) :
        StepIndex(steps[i + 1]) \in {StepIndex(steps[i]), StepIndex(steps[i]) + 1}

\* C27: the steps a compound query publishes are PLANNING, RETRIEVING,
\* SYNTHESIZING, COMPLETE in that order, none skipped or revisited, in both
\* response modes, and COMPLETE is published only after the synthesis
\* request has returned.
C27_StepsForward ==
  /\ \A q \in 1..Len(queries) : Forward(queries[q].steps)
  /\ ret.op = "sendMessage" =>
       /\ Forward(ret.call.steps)
       /\ LastStep(ret.call) = "complete" => ret.call.synthesized

\* The same for the calls made in the quick response mode.
C27_StepsForwardQuick ==
  /\ \A q \in 1..Len(queries) :
        queries[q].responseMode = "quick" => Forward(queries[q].steps)
  /\ ret.op = "sendMessage" =>
       /\ ret.call.responseMode = "quick" => Forward(ret.call.steps)
       /\ LastStep(ret.call) = "complete" => ret.call.synthesized
       /\ ret.call.synthesized => LastStep(ret.call) = "complete"

\* C28: once a newer sendMessage has started, nothing an earlier query
\* dispatches (reasoning state, assistant message) reaches the shared state.
C28_StaleResultsDiscarded ==
  /\ \A i \in 1..Len(state.messages) :
        state.messages[i].role = "assistant" => state.messages[i].latest = state.messages[i].of
  /\ state.reasoning # Null => state.reasoning.latest = state.reasoning.of

NoCredential(r) == r.pre.settings.apiKey = ""

NothingStarted(r) ==
  /\ r.call.calls = [embedding |-> 0, search |-> 0, completion |-> 0]
  /\ r.call.steps = <<>>
  /\ state.messages = r.pre.messages
  /\ state.reasoning = r.pre.reasoning
  /\ ~state.isLoading
  /\ ~r.pre.isLoading
  /\ ~InFlight(r.q)

\* C29: sendMessage without a configured credential sets the configuration
\* error at once: no user message, no embedding, search or completion
\* request, no retry, and the loading flag stays off.
C29_ConfigurationErrorSurfaced ==
  (JustReturned /\ NoCredential(ret)) =>
     /\ state.error = configurationError
     /\ NothingStarted(ret)

\* C29 as it holds: the same for a text that is not blank; for a blank text
\* sendMessage returns before it looks at the credential and sets no error.
C29_ConfigurationErrorSurfacedNonBlank ==
  (JustReturned /\ NoCredential(ret)) =>
     /\ NothingStarted(ret)
     /\ trim(ret.call.content) # <<>> =>
          (state.error = configurationError /\ ret.call.result = "noKey")
     /\ trim(ret.call.content) = <<>> =>
          (state.error = ret.pre.error /\ ret.call.result = "blank")

C29_Witness ==
  /\ JustReturned
  /\ NoCredential(ret)
  /\ ret.call.content = queryLongSignal
  /\ ret.call.result = "noKey"
  /\ ret.pre.error = Null
  /\ state.error = configurationError
  /\ state.messages = <<>>

\* C30: when the simple path fails, taken directly or as the fallback, the
\* call returns with the error set, no assistant message of the query and
\* the loading flag off.
C30_SimplePathFailureSurfaced ==
  /\ (JustReturned /\ ret.call.result = "error") =>
       /\ state.error # Null
       /\ AssistantMessagesOf(ret.q) = {}
       /\ ~state.isLoading
       /\ ~InFlight(ret.q)
       /\ ret.call.path = "simple" \/ ret.call.fellBack
  /\ (JustReturned /\ ret.call.result = "answered") => state.error = Null

C30_Witness ==
  /\ JustReturned
  /\ ret.call.result = "error"
  /\ ret.call.path = "compound"
  /\ ret.call.fellBack
  /\ ret.call.calls.completion = 3
  /\ state.error = Error("Failed to generate response")
  /\ ~state.isLoading
  /\ Len(state.messages) = 1

(***************************************************************************)
(* Properties of chunkText (SpecChunk).                                    *)
(***************************************************************************)
Chunked == ret.op = "chunkText"

\* The sentences of a piece of text: the trimmed pieces between its
\* terminators that are not blank.
SentencesOf(str) ==
  LET pieces == splitSentences(str, 1)
  IN  [i \in 1..Len(pieces) |-> trim(pieces[i])]

RECURSIVE SentencesOfAll(_, _)
SentencesOfAll(strs, i) ==
  IF i > Len(strs) THEN <<>> ELSE SentencesOf(strs[i]) \o SentencesOfAll(strs, i + 1)

\* The sentences of a text, section by section, once its line endings are
\* normalized.
InputSentences(text) == SentencesOfAll(splitSections(cleanLineEndings(text), 1), 1)

\* C31: every chunk chunkText returns is at least 50 characters long; a
\* section or a chunk built from sentences that is shorter is dropped.
C31_ChunksAtLeastMinimum ==
  Chunked =>
     \A i \in 1..Len(ret.out) : Len(ret.out[i]) >= 50

\* The short rest of an oversized section is dropped, the chunk before it
\* is returned.
C31_Witness ==
  /\ Chunked
  /\ ret.text = sectionShortRest
  /\ Len(ret.out) = 1
  /\ Len(ret.out[1]) = 799
  /\ Len(chunkText_NoFilter(ret.text)) = 2

\* C32: a returned chunk that is longer than chunkSize, every character of
\* it counted, is one sentence, not an accumulation of several.
C32_AccumulatedWithinTarget ==
  Chunked =>
     \A i \in 1..Len(ret.out) :
        Len(ret.out[i]) > chunkSize => Len(SentencesOf(ret.out[i])) = 1

\* a is b with some of its elements left out.
RECURSIVE Embeds(_, _, _, _)
Embeds(a, i, b, j) ==
  IF i > Len(a) THEN TRUE
  ELSE IF j > Len(b) THEN FALSE
  ELSE IF a[i] = b[j] THEN Embeds(a, i + 1, b, j + 1)
  ELSE Embeds(a, i, b, j + 1)

Position(files, name) ==
  IF \E k \in 1..Len(files) : files[k] = name
    THEN MinOf({k \in 1..Len(files) : files[k] = name}) ELSE 0

\* C34: the metadata list a rebuild returns is in declared order, whatever
\* the order in which the tasks of the documents finished.
C34_MetadataInDeclaredOrder ==
  (Rebuilt /\ ~load.result.threw) =>
    /\ \A j \in 1..Len(load.result.value) :
         Position(load.documentFiles, load.result.value[j].name) > 0
    /\ \A i, j \in 1..Len(load.result.value) :
         i < j => Position(load.documentFiles, load.result.value[i].name)
                    < Position(load.documentFiles, load.result.value[j].name)

\* The task of the second document put its chunk into the store before the
\* task of the first document put its own; the list has the first document
\* first.
C34_Witness ==
  /\ Rebuilt
  /\ load.documentFiles = declaredFiles
  /\ Len(load.result.value) = 2
  /\ MapSize(chunks) = 3
  /\ chunks[1].value.metadata.source = "b.pdf"
  /\ chunks[3].value.metadata.source = "a.txt"
  /\ load.result.value[1].name = "a.txt"
  /\ load.result.value[2].name = "b.pdf"

\* The chunks of the task's document that the store holds, by chunkIndex.
StoredIndexes(task) ==
  {chunks[j].value.metadata.chunkIndex : j \in {n \in 1..Len(chunks) :
                                                  chunks[n].value.metadata.source = task.name}}

\* The generateEmbedding calls a task has made: one for each chunk up to the
\* one it is at.
Requested(task) ==
  IF task.pc \in {"embed", "added", "delay"} \/ (task.pc = "ok" /\ Len(task.chunks) > 0)
       \/ (task.pc = "failed" /\ task.error \in {"embed", "add"})
    THEN task.i + 1 ELSE 0

RECURSIVE RequestedByAll(_, _)
RequestedByAll(tasks, k) ==
  IF k > Len(tasks) THEN 0 ELSE Requested(tasks[k]) + RequestedByAll(tasks, k + 1)

\* C35: during a rebuild every document has made one embedding request for
\* each chunk up to the one it is at and none beyond it, and when the
\* embedding of chunk i is requested the store holds exactly the chunks
\* 0..i-1 of the document, put there in index order; the tasks of different
\* documents are at any positions.
C35_ChunksInIndexOrder ==
  load.pc = "tasks" =>
    /\ load.embeddingCalls = RequestedByAll(load.tasks, 1)
    /\ \A k \in 1..Len(load.tasks) :
         LET task == load.tasks[k]
         IN  /\ task.pc = "embed" => StoredIndexes(task) = 0..(task.i - 1)
             /\ task.pc \in {"added", "delay"} => StoredIndexes(task) = 0..task.i
             /\ task.pc = "ok" => StoredIndexes(task) = 0..(Len(task.chunks) - 1)
             /\ \A m, n \in 1..Len(chunks) :
                  (/\ m < n
                   /\ chunks[m].value.metadata.source = task.name
                   /\ chunks[n].value.metadata.source = task.name)
                    => chunks[m].value.metadata.chunkIndex < chunks[n].value.metadata.chunkIndex

\* The second chunk of the first document is being embedded while the
\* chunk of the second document is: the store holds the first chunk only.
C35_Witness ==
  /\ load.pc = "tasks"
  /\ Len(load.tasks) = 2
  /\ load.tasks[1].pc = "embed"
  /\ load.tasks[1].i = 1
  /\ load.tasks[2].pc = "embed"
  /\ load.tasks[2].i = 0
  /\ load.embeddingCalls = 3
  /\ MapSize(chunks) = 1
  /\ InStore(load.tasks[1], 1)

\* C36: after a rebuild every chunk of the store, and of the snapshot the
\* rebuild wrote, is of a document of the returned metadata.
C36_NoChunkOfFailedDocument ==
  (Rebuilt /\ ~load.result.threw) =>
    LET listed == {load.result.value[j].name : j \in 1..Len(load.result.value)}
    IN  /\ \A j \in 1..Len(chunks) : chunks[j].value.metadata.source \in listed
        /\ (IsSnapshot(storage) /\ lastSaved.saved) =>
             \A j \in 1..Len(storage.data.chunks) :
               storage.data.chunks[j].metadata.source \in listed

(***************************************************************************)
(* Properties of the messages of a sendMessage call (SpecQuery).           *)
(***************************************************************************)
UserMessagesOf(q) ==
  {i \in 1..Len(state.messages) :
     state.messages[i].role = "user" /\ state.messages[i].of = q}

\* The call got past the tests of the text and of the credential.
Sent(call) == call.path # "none"

\* C37: a sendMessage call with text that is not blank and a credential
\* appends one user message; while it runs it has appended no assistant
\* message; when it has returned it has appended one assistant message and
\* no error is set, or it has set an error and appended no assistant
\* message, and the loading flag is off.
C37_OneUserOneOutcome ==
  /\ \A q \in 1..Len(queries) :
       Sent(queries[q]) =>
          /\ Cardinality(UserMessagesOf(q)) = 1
          /\ InFlight(q) => AssistantMessagesOf(q) = {}
  /\ (JustReturned /\ Sent(ret.call)) =>
       /\ Cardinality(UserMessagesOf(ret.q)) = 1
       /\ Len(state.messages) = Len(ret.pre.messages) + Cardinality(AssistantMessagesOf(ret.q))
       /\ \/ Cardinality(AssistantMessagesOf(ret.q)) = 1 /\ state.error = Null
          \/ AssistantMessagesOf(ret.q) = {} /\ state.error # Null
       /\ ~state.isLoading

\* A compound call whose synthesis failed was answered by the simple path:
\* one user message, one assistant message, no error.
C37_Witness ==
  /\ JustReturned
  /\ ret.call.path = "compound"
  /\ ret.call.fellBack
  /\ Len(ret.call.subtopics) = 2
  /\ Cardinality(UserMessagesOf(ret.q)) = 1
  /\ Cardinality(AssistantMessagesOf(ret.q)) = 1
  /\ state.error = Null
  /\ ~state.isLoading

\* C38: while a compound query is retrieving, the published reasoning
\* state lists a subtopic as completed, in completedSubtopics or by its
\* status, only when the retrieval of that subtopic has finished.
C38_CompletedAfterRetrieval ==
  \A q \in 1..Len(queries) :
    (/\ queries[q].pc = "retrieving"
     /\ state.reasoning # Null
     /\ state.reasoning.of = q
     /\ state.reasoning.currentStep = "retrieving")
      => \A i \in 1..Len(queries[q].subtopics) :
            (\/ \E j \in 1..Len(state.reasoning.completedSubtopics) :
                   state.reasoning.completedSubtopics[j] = queries[q].subtopics[i]
             \/ state.reasoning.subtopicResults[i].status = "complete")
              => queries[q].tasks[i].pc = "done"

(***************************************************************************)
(* Properties of the start of initializeKnowledgeBase (SpecLoad).          *)
(***************************************************************************)
\* A knowledge-base initialization is between its start and its finally.
Initializing == load.pc \notin {"idle", "done"}

\* C39: with any number of hook instances at most one initialization is
\* running at any time, and from the success of an initialization on, as
\* long as the page is not loaded again, none is started: the store is not
\* cleared, rebuilt or changed by a load.
C39_InitializesOnce ==
  /\ [](/\ load.running <= 1
        /\ load.running = (IF Initializing THEN 1 ELSE 0)
        /\ load.isInitializing = Initializing)
  /\ [][load.hasInitialized =>
          \/ load'.pc = "idle" /\ ~load'.hasInitialized /\ ~isInitialized'
          \/ /\ load' = load
             /\ chunks' = chunks
             /\ storage' = storage]_vars

\* The initialization that the first of the hook instances started has
\* succeeded with a rebuild; the other instances started none.
C39_Witness ==
  /\ load.hasInitialized
  /\ load.status = "connected"
  /\ load.rebuilt
  /\ load.clears = 1
  /\ load.running = 0
  /\ load.initStartedRef[1]
  /\ \A h \in 2..MaxHooks : ~load.initStartedRef[h]
  /\ MapSize(chunks) > 0

(***************************************************************************)
(* Properties of the frame of search (Spec).                               *)
(***************************************************************************)
\* C40: a search call leaves the chunk set and the persisted snapshot as
\* they were, on an instance that has been initialized and on one that has
\* not.
C40_SearchReadOnly ==
  Searched => (chunks = ret.pre.chunks /\ storage = ret.pre.storage)

\* The same for the calls made on an initialized instance.
C40_SearchReadOnlyInitialized ==
  (Searched /\ ret.pre.isInitialized) => (chunks = ret.pre.chunks /\ storage = ret.pre.storage)

====
